---- MODULE Spec2Model ----
(***************************************************************************)
(* Firmware acquisition pipeline of nanosamfw: the download service        *)
(* (download/service.py), the firmware repository                          *)
(* (download/firmware_repository.py), the audit log                        *)
(* (download/imei_repository.py) and the device monitor                    *)
(* (app/device_monitor.py).                                                *)
(*                                                                         *)
(* One worker executes one call at a time.  pc is its position, stack the  *)
(* chain of active functions (outermost first).  Files are byte sequences; *)
(* the FUS/FOTA servers, the user and the device are the environment.      *)
(***************************************************************************)
EXTENDS Integers, Sequences, FiniteSets, TLC

VARIABLES
    fw,          \* firmware table: version_code -> row or NoRow
    audit,       \* imei_log row of (session_id, imei), or NoRow
    part,        \* firmware_dir/<filename>.part
    enc,         \* firmware_dir/<filename>
    dec,         \* decrypted_dir/<stem>: "absent" | "partial" | "complete"
    dir,         \* decrypted_dir/<stem without .zip>/: extracted member names
    pc,          \* position of the worker
    stack,       \* active functions, outermost first
    outcome,     \* how the last top-level call ended
    ver,         \* version_code argument of the running call (NoVer if none)
    resume,      \* resume argument of get_or_download_firmware
    start,       \* local start of get_or_download_firmware
    written,     \* local written of get_or_download_firmware
    decPos,      \* bytes of enc_path consumed by the decrypt loop
    idx,         \* loop index of the extract and checksum loops
    records,     \* local records of cleanup_repository still to visit
    stats,       \* local stats of cleanup_repository, and the dict it returned
    skip_home_csc,   \* argument of extract_firmware
    cleanup_after,   \* argument of extract_firmware
    stop_task,   \* what stop_check() returns
    size_bytes,  \* info.size_bytes: the size the server reports, and sends
    csc_filter,  \* DeviceMonitor.csc_filter
    monitoring,        \* DeviceMonitor.monitoring
    device_connected,  \* local device_connected of _monitor_loop
    download_in_progress, \* DeviceMonitor.download_in_progress
    plugged,     \* environment: a device answers AT+DEVCONINFO
    devFw,       \* device.firmware_version of the device read by the loop
    devCsc,      \* device.sales_code of the device read by the loop
    latest,      \* local latest of _handle_firmware_check
    ui           \* severity of the last progress message shown

VARIABLES
    imei_log,    \* imei_log table: the set of its rows
    clock,       \* what _iso_now() returns
    write,       \* the repository write that is running, with its arguments
    called_on,   \* the tables as they were when that write was called
    txn,         \* "open" between BEGIN and COMMIT/ROLLBACK of its connection
    journal,     \* what ROLLBACK restores: the tables at BEGIN
    loop,        \* position of each monitor thread of the GUI
    client,      \* fields of the FUSClient object, if one has been made
    reply,       \* the last response it handled, and how that call ended
    odin,        \* the running call of enter_odin_mode: position, time, probes made
    channel,     \* the running call of the device channel and the handles it holds
    norm,        \* a text, normalize_vercode of it, and normalize_vercode of that
    logic,       \* the arguments and the outcome of the last call of logic_check
    stream,      \* input, position and output of a run of _decrypt_progress
    acq          \* the requests sent and the responses received by one run of bootstrap, inform, init, stream

\* the state outside the download service and the monitor
others ==
    <<imei_log, clock, write, called_on, txn, journal, loop, client, reply, odin, channel, norm, logic, stream, acq>>

\* what the calls of upsert_imei_event leave alone
notAudit ==
    <<write, called_on, txn, journal, loop, client, reply, odin, channel, norm, logic, stream, acq>>

\* what the repository writes leave alone
notDb ==
    <<loop, client, reply, odin, channel, norm, logic, stream, acq>>

\* what the monitor threads leave alone
notThreads ==
    <<imei_log, clock, write, called_on, txn, journal, client, reply, odin, channel, norm, logic, stream, acq>>

\* what the FUS client leaves alone
notFus ==
    <<imei_log, clock, write, called_on, txn, journal, loop, odin, channel, norm, logic, stream, acq>>

\* what enter_odin_mode leaves alone
notOdin ==
    <<imei_log, clock, write, called_on, txn, journal, loop, client, reply, channel, norm, logic, stream, acq>>

\* what the device channel leaves alone
notSerial ==
    <<imei_log, clock, write, called_on, txn, journal, loop, client, reply, odin, norm, logic, stream, acq>>

\* what the calls of normalize_vercode leave alone
notNormalize ==
    <<imei_log, clock, write, called_on, txn, journal, loop, client, reply, odin, channel, logic, stream, acq>>

\* what the calls of logic_check leave alone
notLogic ==
    <<imei_log, clock, write, called_on, txn, journal, loop, client, reply, odin, channel, norm, stream, acq>>

\* what _decrypt_progress leaves alone
notStream ==
    <<imei_log, clock, write, called_on, txn, journal, loop, client, reply, odin, channel, norm, logic, acq>>

\* what the acquisition sequence leaves alone
notAcq ==
    <<imei_log, clock, write, called_on, txn, journal, loop, client, reply, odin, channel, norm, logic, stream>>

data == <<fw, part, enc, dec, dir>>
locals == <<ver, resume, skip_home_csc, cleanup_after, start, written, decPos, idx, records, stats>>
ctl == <<pc, stack, outcome, audit, ui, download_in_progress, latest>>
env == <<stop_task, size_bytes, csc_filter, others, plugged, devFw, devCsc, monitoring, device_connected>>
vars == <<fw, audit, part, enc, dec, dir, pc, stack, outcome, ver, resume,
          start, written, decPos, idx, records, stats, skip_home_csc, cleanup_after,
          stop_task, size_bytes, csc_filter, monitoring, device_connected, download_in_progress,
          plugged, devFw, devCsc, latest, ui, others>>

\* the state of the download service and the monitor
service == <<data, locals, ctl, stop_task, size_bytes, csc_filter, plugged,
             devFw, devCsc, monitoring, device_connected>>

----------------------------------------------------------------------------
(* Bounds *)

\* length of the shortest remote firmware file, in bytes
RemoteLen == 16
\* largest chunk iter_content hands over, in bytes (the code asks for 1 MiB)
MaxChunk == 6
\* AES blocks read per iteration of the decrypt loop (the code reads 4096 bytes)
DecBufBlocks == 1

(* Program constants *)

AES_BLOCK == 16

----------------------------------------------------------------------------
(* Version codes are sequences of their '/'-separated parts. *)

normalize_vercode(vercode) ==
    LET parts == IF Len(vercode) = 3 THEN Append(vercode, vercode[1]) ELSE vercode
    IN  IF parts[3] = "" THEN [parts EXCEPT ![3] = parts[1]] ELSE parts

V1 == <<"A", "B", "C", "A">>
V1Short == <<"A", "B", "C">>
OldFw == <<"P", "Q", "R", "P">>
VerInputs == {V1, V1Short}
\* the dict cleanup_repository starts from
ZeroStats ==
    [total_records |-> 0, missing_encrypted |-> 0, decrypted_deleted |-> 0,
     records_deleted |-> 0]

\* the version codes the calls are made with, in normal form
CalledCodes == {normalize_vercode(v) : v \in VerInputs}
\* the version codes the repository can hold: those, and an older firmware
Codes == CalledCodes \cup {OldFw}
NoVer == <<>>
NoRow == [none |-> TRUE]

(* The remote file: byte i of the file has value i.  Its length is a whole  *)
(* number of AES blocks, or (a file the decrypt step must refuse) one more. *)
RemoteSizes == {RemoteLen, RemoteLen + 1}
Remote == [i \in 1..size_bytes |-> i]

Absent == [ex |-> FALSE, data |-> <<>>]
File(bytes) == [ex |-> TRUE, data |-> bytes]

Members == <<"AP", "HOME_CSC">>

Min(a, b) == IF a < b THEN a ELSE b

----------------------------------------------------------------------------
(* Exceptions.  Each is named by its Python class; the suffix after ':'    *)
(* tells the raise sites of one class apart.                               *)

FUSErrors ==
    {"InformError:400", "InformError:408", "InformError:missing",
     "DownloadError:http", "DownloadError:416", "DownloadError:size",
     "DecryptError:blocksize"}
\* InformError.BadStatus is a class of its own (an Exception, not an
\* InformError); parse_inform does not raise it
BadStatusErrors == {"InformError.BadStatus:400", "InformError.BadStatus:408"}
OSErrors == {"HTTPError", "FileNotFoundError", "OSError"}
FOTAErrors == {"FOTAModelOrRegionNotFound", "FOTANoFirmware"}
Cancelled == "RuntimeError:stopped"

\* except FUSError (download_and_decrypt)
IsFUSError(ex) == ex \in FUSErrors

\* the except clauses of the frame, as a set of exceptions it handles (the
\* except clauses of _monitor_loop itself are part of MonPoll: they see what
\* read_device_info_at raises, and _handle_firmware_check lets none of their
\* classes through)
CatchesNoRuntimeError(frame, ex) ==
    CASE frame \in {"hdownload", "hcached"} -> ex \in BadStatusErrors
      [] frame = "check" ->
            ex \in FOTAErrors \cup OSErrors \cup {"ValueError", Cancelled}
      [] OTHER -> FALSE

Catches(frame, ex) ==
    CASE frame \in {"hdownload", "hcached"} -> ex \in {Cancelled} \cup BadStatusErrors
      [] frame = "check" ->
            ex \in FOTAErrors \cup OSErrors \cup {"ValueError", Cancelled}
      [] OTHER -> FALSE

----------------------------------------------------------------------------
(* Repository *)

FirmwareRecord(dl, de, ex) ==
    [downloaded |-> dl, decrypted |-> de, extracted |-> ex, size_bytes |-> size_bytes]

\* find_firmware: the lookup is by the string given, not by its normal form
find_firmware(version_code) ==
    IF version_code \in Codes THEN fw[version_code] ELSE NoRow

\* upsert_firmware: every column is replaced by the record's
upsert_firmware(table, version_code, rec) ==
    [table EXCEPT ![version_code] = rec]

\* update_firmware_status: UPDATE ... WHERE version_code=?; updates holds the
\* flags that were given (the others are None and stay)
update_firmware_status(table, version_code, updates) ==
    IF version_code \in Codes /\ table[version_code] # NoRow
    THEN [table EXCEPT ![version_code] =
            [f \in DOMAIN @ |-> IF f \in DOMAIN updates THEN updates[f] ELSE @[f]]]
    ELSE table

\* a DELETE that removes no row
delete_firmware_nothing(table, version_code) == table

delete_firmware(table, version_code) ==
    [table EXCEPT ![version_code] = NoRow]

\* an upsert that keeps the stored value of a field the call omits
upsert_imei_event_keeping(status_fus, fota_version, serial_number) ==
    [status_fus |-> status_fus,
     fota_version |-> IF fota_version = NoVer /\ audit # NoRow
                      THEN audit.fota_version ELSE fota_version,
     serial_number |-> serial_number \/ (audit # NoRow /\ audit.serial_number)]

\* upsert_imei_event: every mutable column takes the value of this call
upsert_imei_event(status_fus, fota_version, serial_number) ==
    [status_fus |-> status_fus, fota_version |-> fota_version,
     serial_number |-> serial_number]

----------------------------------------------------------------------------
(* Control: moving on, returning to the top level, raising. *)

Goto(p) ==
    /\ pc' = p
    /\ UNCHANGED <<stack, outcome, audit, ui, download_in_progress, latest>>

\* a function is called: its frame is pushed
Call(frame, p) ==
    /\ pc' = p
    /\ stack' = Append(stack, frame)
    /\ UNCHANGED <<outcome, audit, ui, download_in_progress, latest>>

\* the running function returns to its caller, which goes on at p
ReturnTo(p) ==
    /\ pc' = p
    /\ stack' = SubSeq(stack, 1, Len(stack) - 1)
    /\ UNCHANGED <<outcome, audit, ui, download_in_progress, latest>>

ResetLocals ==
    /\ ver' = NoVer
    /\ resume' = FALSE
    /\ skip_home_csc' = FALSE
    /\ cleanup_after' = FALSE
    /\ start' = 0
    /\ written' = 0
    /\ decPos' = 0
    /\ idx' = 0
    /\ records' = <<>>
    /\ UNCHANGED stats

\* a top-level call of the service returns or raises to its caller
Finish(res) ==
    /\ pc' = "idle"
    /\ stack' = <<>>
    /\ outcome' = res
    /\ UNCHANGED <<audit, ui, download_in_progress, latest>>
    /\ ResetLocals

\* _handle_firmware_check is over: the monitor loop sleeps and polls again
BackToLoop(res, severity, in_progress) ==
    /\ pc' = "mon_poll"
    /\ stack' = <<"loop">>
    /\ outcome' = res
    /\ ui' = severity
    /\ download_in_progress' = in_progress
    /\ latest' = NoVer
    /\ UNCHANGED audit
    /\ ResetLocals

\* the audit row download_and_decrypt writes in its except FUSError clause
AuditOnError(ex) ==
    IF /\ IsFUSError(ex)
       /\ \E i \in 1..(Len(stack) - 1) : stack[i] = "dad" /\ stack[i + 1] = "god"
    THEN upsert_imei_event("error", normalize_vercode(ver), FALSE)
    ELSE audit

\* an exception leaves the running function and unwinds the stack
Raise(ex) ==
    LET catchers == {i \in 1..Len(stack) : Catches(stack[i], ex)}
        inner == CHOOSE i \in catchers : \A j \in catchers : j <= i
    IN  /\ audit' = AuditOnError(ex)
        /\ IF catchers = {}
           THEN /\ pc' = IF stack[1] = "loop" THEN "dead" ELSE "idle"
                /\ stack' = <<>>
                /\ outcome' = ex
                /\ UNCHANGED <<ui, download_in_progress, latest>>
                /\ ResetLocals
           ELSE /\ pc' = "mon_poll"
                /\ stack' = <<"loop">>
                /\ outcome' = ex
                /\ latest' = NoVer
                /\ ResetLocals
                /\ IF stack[inner] \in {"hdownload", "hcached"}
                   THEN /\ ui' = IF ex \in {Cancelled, "InformError.BadStatus:400"}
                                 THEN "warning" ELSE "error"
                        /\ download_in_progress' = FALSE
                   ELSE IF ex \in FOTAErrors
                        THEN ui' = "warning" /\ UNCHANGED download_in_progress
                        ELSE ui' = "info" /\ download_in_progress' = FALSE

----------------------------------------------------------------------------
(* get_or_download_firmware *)

\* start = part_path.stat().st_size if (resume and part_path.exists()) else 0
ResumeStart(res, p) == IF res /\ p.ex THEN Len(p.data) ELSE 0

\* a download that opens the part file "wb" whatever start is
OpenPartTruncating(p, st) == File(<<>>)

\* a part file that is opened for appending whatever the start offset is
OpenPartAppending(p, st) == IF p.ex THEN p ELSE File(<<>>)

\* open(part_path, "ab" if start > 0 else "wb")
OpenPart(p, st) == IF st > 0 THEN p ELSE File(<<>>)

\* the body the server sends for Range: bytes=<offset>- (all of it for offset 0)
Served(offset, n) == SubSeq(Remote, offset + 1, offset + n)

\* a size check that lets a file through that is one byte short
SizeWithinOne(w, expected) == w >= expected - 1

\* if written != info.size_bytes: raise DownloadError
SizeMatches(w, expected) == w = expected

Code == normalize_vercode(ver)

\* a lookup that never finds the firmware in the repository
GodFindAlwaysDownload ==
    /\ pc = "god_find"
    /\ Goto("god_bootstrap")
    /\ UNCHANGED locals
    /\ UNCHANGED <<data, env>>

\* existing = find_firmware(version_code); return it if its file is on disk
GodFind ==
    /\ pc = "god_find"
    /\ LET existing == find_firmware(ver)
       IN  IF existing # NoRow /\ enc[ver].ex
           THEN IF Len(stack) > 1
                THEN ReturnTo("dad_audit_ok") /\ UNCHANGED locals
                ELSE Finish("ok")
           ELSE Goto("god_bootstrap") /\ UNCHANGED locals
    /\ UNCHANGED <<data, env>>

\* client = FUSClient(): the bootstrap POST, raise_for_status
GodBootstrap ==
    /\ pc = "god_bootstrap"
    /\ \E http_ok \in BOOLEAN :
          IF http_ok
          THEN Goto("god_inform") /\ UNCHANGED locals
          ELSE Raise("HTTPError")
    /\ UNCHANGED <<data, env>>

\* client.inform(...) and parse_inform(...)
GodInform ==
    /\ pc = "god_inform"
    /\ \E answer \in {"ok", "http", "400", "408", "missing"} :
          CASE answer = "ok" -> Goto("god_init") /\ UNCHANGED locals
            [] answer = "http" -> Raise("HTTPError")
            [] answer = "400" -> Raise("InformError:400")
            [] answer = "408" -> Raise("InformError:408")
            [] answer = "missing" -> Raise("InformError:missing")
    /\ UNCHANGED <<data, env>>

\* client.init(...)
GodInit ==
    /\ pc = "god_init"
    /\ \E http_ok \in BOOLEAN :
          IF http_ok
          THEN Goto("god_stream") /\ UNCHANGED locals
          ELSE Raise("HTTPError")
    /\ UNCHANGED <<data, env>>

\* what the server can answer to GET with Range: bytes=<st>- (st > 0) or
\* without Range (st = 0): the bytes from that offset on, a failure of its
\* own, or, when no byte is left from that offset on, 416 Range Not
\* Satisfiable
StreamAnswers(st) ==
    {"ok", "http"} \cup (IF st > 0 /\ st >= size_bytes THEN {"416"} ELSE {})

\* start = ...; resp = client.stream(remote, start=start); open(part_path, mode)
\* if not r.ok: raise DownloadError(f"HTTP {r.status_code} on download")
GodStream ==
    /\ pc = "god_stream"
    /\ \E answer \in StreamAnswers(ResumeStart(resume, part[Code])) :
          IF answer = "ok"
          THEN /\ Goto("god_chunk")
               /\ start' = ResumeStart(resume, part[Code])
               /\ written' = ResumeStart(resume, part[Code])
               /\ part' = [part EXCEPT ![Code] = OpenPart(@, ResumeStart(resume, @))]
               /\ UNCHANGED <<ver, resume, skip_home_csc, cleanup_after, decPos, idx, records, stats>>
          ELSE /\ Raise(IF answer = "416" THEN "DownloadError:416" ELSE "DownloadError:http")
               /\ UNCHANGED part
    /\ UNCHANGED <<fw, enc, dec, dir, env>>

\* a loop that writes the chunk first and asks stop_check afterwards
GodChunkWriteFirst ==
    /\ pc = "god_chunk"
    /\ written < size_bytes
    /\ \E n \in 1..Min(MaxChunk, size_bytes - written) :
          /\ part' = [part EXCEPT ![normalize_vercode(ver)] =
                         File(@.data \o SubSeq(Remote, written + 1, written + n))]
          /\ IF stop_task
             THEN Raise(Cancelled)
             ELSE /\ Goto("god_chunk")
                  /\ written' = written + n
                  /\ UNCHANGED <<ver, resume, skip_home_csc, cleanup_after, start, decPos, idx, records, stats>>
    /\ UNCHANGED <<fw, enc, dec, dir, env>>

\* one iteration of for chunk in resp.iter_content(...): the next n bytes arrive
GodChunk ==
    /\ pc = "god_chunk"
    /\ written < size_bytes
    /\ \E n \in 1..Min(MaxChunk, size_bytes - written) :
          IF stop_task
          THEN Raise(Cancelled) /\ UNCHANGED part
          ELSE /\ Goto("god_chunk")
               /\ part' = [part EXCEPT ![Code] = File(@.data \o Served(written, n))]
               /\ written' = written + n
               /\ UNCHANGED <<ver, resume, skip_home_csc, cleanup_after, start, decPos, idx, records, stats>>
    /\ UNCHANGED <<fw, enc, dec, dir, env>>

\* the body ends (all of it was sent, or the connection closed early):
\* the size check, then part_path.replace(enc_path)
GodVerify ==
    /\ pc = "god_chunk"
    /\ IF SizeMatches(written, size_bytes)
       THEN /\ Goto("god_persist")
            /\ enc' = [enc EXCEPT ![Code] = part[Code]]
            /\ part' = [part EXCEPT ![Code] = Absent]
            /\ UNCHANGED locals
       ELSE /\ Raise("DownloadError:size")
            /\ UNCHANGED <<part, enc>>
    /\ UNCHANGED <<fw, dec, dir, env>>

\* upsert_firmware(rec); return rec
GodPersist ==
    /\ pc = "god_persist"
    /\ fw' = upsert_firmware(fw, Code, FirmwareRecord(1, 0, 0))
    /\ IF Len(stack) > 1
       THEN ReturnTo("dad_audit_ok") /\ UNCHANGED locals
       ELSE Finish("ok")
    /\ UNCHANGED <<part, enc, dec, dir, env>>

\* the caller: get_or_download_firmware(version_code, ..., resume=...)
CallGetOrDownload ==
    /\ pc = "idle"
    /\ ~monitoring
    /\ \E v \in VerInputs, r \in BOOLEAN :
          /\ ver' = v
          /\ resume' = r
    /\ pc' = "god_find"
    /\ stack' = <<"god">>
    /\ outcome' = "none"
    /\ stop_task' = FALSE
    /\ UNCHANGED <<audit, ui, download_in_progress, latest>>
    /\ UNCHANGED <<skip_home_csc, cleanup_after, start, written, decPos, idx, records>>
    /\ UNCHANGED <<data, size_bytes, csc_filter, others, plugged, devFw, devCsc, monitoring, device_connected>>
    /\ stats' = ZeroStats

----------------------------------------------------------------------------
(* check_and_prepare_firmware *)

\* the device serial is known to the monitor, not to a direct caller
SerialKnown == Len(stack) > 0 /\ stack[1] = "loop"

\* is_cached = cached is not None and cached.downloaded == 1
is_cached(version_code) ==
    /\ find_firmware(version_code) # NoRow
    /\ find_firmware(version_code).downloaded = 1

\* the first upsert_imei_event: status_fus unknown, no fota_version yet
CapLog ==
    /\ pc = "cap_log"
    /\ pc' = "cap_fota"
    /\ audit' = upsert_imei_event("unknown", NoVer, SerialKnown)
    /\ UNCHANGED <<stack, outcome, ui, download_in_progress, latest>>
    /\ UNCHANGED <<data, locals, env>>

\* what the FOTA endpoint can answer: HTTP 403, another error status, a
\* document without the element firmware/version/latest, one in which that
\* element has no text, one in which it holds a version
FotaAnswers == {"403", "500", "latest absent", "latest empty", "latest"}

\* how get_latest_version ends for an answer: "ok" when it returns the
\* version; root.find(...) gives None for an absent element, and None.text
\* is an AttributeError
get_latest_version(answer) ==
    CASE answer = "403" -> "FOTAModelOrRegionNotFound"
      [] answer = "500" -> "HTTPError"
      [] answer = "latest absent" -> "AttributeError"
      [] answer = "latest empty" -> "FOTANoFirmware"
      [] OTHER -> "ok"

\* get_latest_version, normalize_vercode, the second upsert_imei_event,
\* find_firmware; the result goes back to the caller
CapFota ==
    /\ pc = "cap_fota"
    /\ \E answer \in FotaAnswers, v \in VerInputs :
          IF get_latest_version(answer) = "ok"
          THEN LET version_norm == normalize_vercode(normalize_vercode(v))
               IN  /\ audit' = upsert_imei_event("unknown", version_norm, SerialKnown)
                   /\ stack' = SubSeq(stack, 1, Len(stack) - 1)
                   /\ IF stack[Len(stack) - 1] = "dad"
                      THEN /\ pc' = "dad_stop"
                           /\ ver' = version_norm
                           /\ UNCHANGED latest
                      ELSE /\ pc' = "chk_branch"
                           /\ latest' = version_norm
                           /\ UNCHANGED ver
                   /\ UNCHANGED <<outcome, ui, download_in_progress>>
                   /\ UNCHANGED <<resume, skip_home_csc, cleanup_after, start,
                                  written, decPos, idx, records, stats>>
          ELSE Raise(get_latest_version(answer))
    /\ UNCHANGED <<data, env>>

----------------------------------------------------------------------------
(* download_and_decrypt *)

\* version given: normalize it; otherwise ask check_and_prepare_firmware
DadStart ==
    /\ pc = "dad_start"
    /\ IF ver = NoVer
       THEN Call("cap", "cap_log") /\ UNCHANGED locals
       ELSE /\ Goto("dad_stop")
            /\ ver' = normalize_vercode(ver)
            /\ UNCHANGED <<resume, skip_home_csc, cleanup_after, start,
                           written, decPos, idx, records, stats>>
    /\ UNCHANGED <<data, env>>

\* if stop_check and stop_check(): raise; else get_or_download_firmware(...)
DadStopCheck ==
    /\ pc = "dad_stop"
    /\ IF stop_task
       THEN Raise(Cancelled)
       ELSE Call("god", "god_find") /\ UNCHANGED locals
    /\ UNCHANGED <<data, env>>

\* the download returned: upsert_imei_event(status_fus="ok"), then decrypt
DadAuditOk ==
    /\ pc = "dad_audit_ok"
    /\ pc' = "dec_find"
    /\ stack' = Append(stack, "decrypt")
    /\ audit' = upsert_imei_event("ok", ver, FALSE)
    /\ UNCHANGED <<outcome, ui, download_in_progress, latest>>
    /\ UNCHANGED <<data, locals, env>>

CallDownloadAndDecrypt ==
    /\ pc = "idle"
    /\ ~monitoring
    /\ \E v \in VerInputs \cup {NoVer}, r \in BOOLEAN :
          /\ ver' = v
          /\ resume' = r
    /\ pc' = "dad_start"
    /\ stack' = <<"dad">>
    /\ outcome' = "none"
    /\ stop_task' = FALSE
    /\ UNCHANGED <<audit, ui, download_in_progress, latest>>
    /\ UNCHANGED <<skip_home_csc, cleanup_after, start, written, decPos, idx, records>>
    /\ UNCHANGED <<data, size_bytes, csc_filter, others, plugged, devFw, devCsc, monitoring, device_connected>>
    /\ stats' = ZeroStats

----------------------------------------------------------------------------
(* decrypt_firmware *)

\* decrypt_file is handed stop_check and asks it before every block it reads
DecryptStopCheck == stop_task

\* the flag decrypt_firmware sets once decrypt_file has returned
DecryptedFlag == [decrypted |-> 1]

\* find_firmware, the existence check of the encrypted file, the first stop check
DecFind ==
    /\ pc = "dec_find"
    /\ IF find_firmware(ver) = NoRow
       THEN Raise("ValueError")
       ELSE IF ~enc[ver].ex
            THEN Raise("FileNotFoundError")
            ELSE IF stop_task
                 THEN Raise(Cancelled)
                 ELSE Goto("dec_open") /\ UNCHANGED locals
    /\ UNCHANGED <<data, env>>

\* a decrypt step that sets the flag before it has decrypted anything
DecOpenFlagFirst ==
    /\ pc = "dec_open"
    /\ dec' = [dec EXCEPT ![ver] = "partial"]
    /\ fw' = update_firmware_status(fw, ver, DecryptedFlag)
    /\ IF Len(enc[ver].data) % AES_BLOCK # 0
       THEN Raise("DecryptError:blocksize")
       ELSE /\ Goto("dec_loop")
            /\ decPos' = 0
            /\ UNCHANGED <<ver, resume, skip_home_csc, cleanup_after, start,
                           written, idx, records, stats>>
    /\ UNCHANGED <<part, enc, dir, env>>

\* decrypt_file opens enc_path "rb" and out_path "wb"; the length of the
\* input must be a multiple of the AES block size
DecOpen ==
    /\ pc = "dec_open"
    /\ dec' = [dec EXCEPT ![ver] = "partial"]
    /\ IF Len(enc[ver].data) % AES_BLOCK # 0
       THEN Raise("DecryptError:blocksize")
       ELSE /\ Goto("dec_loop")
            /\ decPos' = 0
            /\ UNCHANGED <<ver, resume, skip_home_csc, cleanup_after, start,
                           written, idx, records, stats>>
    /\ UNCHANGED <<fw, part, enc, dir, env>>

\* one iteration of the decrypt loop: read a buffer, decrypt it, write it;
\* the loop is left when the input is exhausted
DecBlock ==
    /\ pc = "dec_loop"
    /\ IF DecryptStopCheck
       THEN Raise(Cancelled) /\ UNCHANGED dec
       ELSE \E io_ok \in BOOLEAN :
               IF ~io_ok
               THEN Raise("OSError") /\ UNCHANGED dec
               ELSE LET total == Len(enc[ver].data)
                        next == Min(decPos + DecBufBlocks * AES_BLOCK, total)
                    IN  /\ UNCHANGED <<ver, resume, skip_home_csc, cleanup_after,
                                       start, written, idx, records, stats>>
                        /\ decPos' = next
                        /\ IF decPos < total
                           THEN /\ Goto("dec_loop")
                                /\ dec' = [dec EXCEPT ![ver] =
                                             IF next = total THEN "complete" ELSE "partial"]
                           ELSE /\ Goto("dec_flag")
                                /\ UNCHANGED dec
    /\ UNCHANGED <<fw, part, enc, dir, env>>

\* update_firmware_status(version_code, decrypted=1); return the path
DecFlag ==
    /\ pc = "dec_flag"
    /\ fw' = update_firmware_status(fw, ver, DecryptedFlag)
    /\ IF stack[1] = "loop"
       THEN /\ pc' = "mx_open"
            /\ stack' = SubSeq(stack, 1, 3)
            /\ UNCHANGED <<outcome, audit, ui, download_in_progress, latest>>
            /\ UNCHANGED locals
       ELSE Finish("ok")
    /\ UNCHANGED <<part, enc, dec, dir, env>>

CallDecrypt ==
    /\ pc = "idle"
    /\ ~monitoring
    /\ \E v \in VerInputs : ver' = v
    /\ pc' = "dec_find"
    /\ stack' = <<"decrypt">>
    /\ outcome' = "none"
    /\ stop_task' = FALSE
    /\ UNCHANGED <<audit, ui, download_in_progress, latest>>
    /\ UNCHANGED <<resume, skip_home_csc, cleanup_after, start, written, decPos, idx, records>>
    /\ UNCHANGED <<data, size_bytes, csc_filter, others, plugged, devFw, devCsc, monitoring, device_connected>>
    /\ stats' = ZeroStats

----------------------------------------------------------------------------
(* extract_firmware (download/service.py) *)

\* the decrypted file handed to extract_firmware is the one of this firmware
ExtractPath == V1

\* members = zip_ref.namelist(), without HOME_CSC_* if skip_home_csc
FilteredMembers(skip) ==
    IF skip THEN SelectSeq(Members, LAMBDA m : m # "HOME_CSC") ELSE Members

\* the flag extract_firmware sets after the checksum loop
ExtractedFlag == [extracted |-> 1]

\* the existence check, mkdir, zipfile.ZipFile(decrypted_path): a file that
\* was not written to its end has no central directory
ExtOpen ==
    /\ pc = "ext_open"
    /\ IF dec[ExtractPath] # "complete"
       THEN Raise("ValueError")
       ELSE Goto("ext_loop") /\ UNCHANGED locals
    /\ UNCHANGED <<data, env>>

\* one iteration of the extraction loop; after the last member, the listing
\* of the directory for the checksum loop
ExtMember ==
    /\ pc = "ext_loop"
    /\ LET members == FilteredMembers(skip_home_csc)
       IN  IF idx < Len(members)
           THEN IF stop_task
                THEN Raise(Cancelled) /\ UNCHANGED dir
                ELSE /\ Goto("ext_loop")
                     /\ dir' = [dir EXCEPT ![ExtractPath] = @ \cup {members[idx + 1]}]
                     /\ idx' = idx + 1
                     /\ UNCHANGED <<ver, resume, skip_home_csc, cleanup_after,
                                    start, written, decPos, records, stats>>
           ELSE /\ Goto("ext_sum")
                /\ idx' = 0
                /\ UNCHANGED dir
                /\ UNCHANGED <<ver, resume, skip_home_csc, cleanup_after,
                               start, written, decPos, records, stats>>
    /\ UNCHANGED <<fw, part, enc, dec, env>>

\* one iteration of the checksum loop over the files of the directory
ExtChecksum ==
    /\ pc = "ext_sum"
    /\ IF idx < Cardinality(dir[ExtractPath])
       THEN IF stop_task
            THEN Raise(Cancelled)
            ELSE /\ Goto("ext_sum")
                 /\ idx' = idx + 1
                 /\ UNCHANGED <<ver, resume, skip_home_csc, cleanup_after,
                                start, written, decPos, records, stats>>
       ELSE Goto("ext_flag") /\ UNCHANGED locals
    /\ UNCHANGED <<data, env>>

\* an extract step that deletes its source files before the flag is set
ExtFlagCleanupFirst ==
    /\ pc = "ext_flag"
    /\ enc' = IF cleanup_after /\ ver \in Codes THEN [enc EXCEPT ![ver] = Absent] ELSE enc
    /\ dec' = IF cleanup_after THEN [dec EXCEPT ![ExtractPath] = "absent"] ELSE dec
    /\ fw' = IF ver # NoVer THEN update_firmware_status(fw, ver, ExtractedFlag) ELSE fw
    /\ IF cleanup_after
       THEN Goto("ext_cleanup") /\ UNCHANGED locals
       ELSE Finish("ok")
    /\ UNCHANGED <<part, dir, env>>

\* if version_code: update_firmware_status(version_code, extracted=1)
ExtFlag ==
    /\ pc = "ext_flag"
    /\ fw' = IF ver # NoVer THEN update_firmware_status(fw, ver, ExtractedFlag) ELSE fw
    /\ IF cleanup_after
       THEN Goto("ext_cleanup") /\ UNCHANGED locals
       ELSE Finish("ok")
    /\ UNCHANGED <<part, enc, dec, dir, env>>

\* if cleanup_after: unlink the encrypted file of the row, unlink the
\* decrypted file; return unzip_dir
ExtCleanup ==
    /\ pc = "ext_cleanup"
    /\ enc' = IF ver # NoVer /\ find_firmware(ver) # NoRow
              THEN [enc EXCEPT ![ver] = Absent]
              ELSE enc
    /\ dec' = [dec EXCEPT ![ExtractPath] = "absent"]
    /\ Finish("ok")
    /\ UNCHANGED <<fw, part, dir, env>>

CallExtract ==
    /\ pc = "idle"
    /\ ~monitoring
    /\ \E v \in VerInputs \cup {NoVer}, skip \in BOOLEAN, cleanup \in BOOLEAN :
          /\ ver' = v
          /\ skip_home_csc' = skip
          /\ cleanup_after' = cleanup
    /\ pc' = "ext_open"
    /\ stack' = <<"extract">>
    /\ outcome' = "none"
    /\ stop_task' = FALSE
    /\ UNCHANGED <<audit, ui, download_in_progress, latest>>
    /\ UNCHANGED <<resume, start, written, decPos, idx, records>>
    /\ UNCHANGED <<data, size_bytes, csc_filter, others, plugged, devFw, devCsc, monitoring, device_connected>>
    /\ stats' = ZeroStats

----------------------------------------------------------------------------
(* cleanup_repository *)

\* list_firmware(): the rows of the table, newest first; the model keeps no
\* created_at, so every order of the rows is possible
list_firmware ==
    LET rows == {c \in Codes : fw[c] # NoRow}
    IN  {s \in [1..Cardinality(rows) -> rows] :
            \A i, j \in DOMAIN s : s[i] = s[j] => i = j}

\* stats = {...all 0}; records = list(list_firmware())
CallCleanupRepository ==
    /\ pc = "idle"
    /\ ~monitoring
    /\ \E s \in list_firmware : records' = s
    /\ stats' = ZeroStats
    /\ pc' = "cl_loop"
    /\ stack' = <<"cleanup">>
    /\ outcome' = "none"
    /\ UNCHANGED <<audit, ui, download_in_progress, latest, stop_task>>
    /\ UNCHANGED <<ver, resume, skip_home_csc, cleanup_after, start, written, decPos, idx>>
    /\ UNCHANGED <<data, size_bytes, csc_filter, others, plugged, devFw, devCsc, monitoring, device_connected>>

\* a cleanup that counts a decrypted file for every row it deletes
StatsAfterCountingEveryRow(st, missing, removed) ==
    [total_records |-> st.total_records + 1,
     missing_encrypted |-> st.missing_encrypted + (IF missing THEN 1 ELSE 0),
     decrypted_deleted |-> st.decrypted_deleted + (IF missing THEN 1 ELSE 0),
     records_deleted |-> st.records_deleted + (IF missing THEN 1 ELSE 0)]

\* the counters after one record: missing = its encrypted file is no file,
\* removed = its decrypted file existed and was unlinked
StatsAfter(st, missing, removed) ==
    [total_records |-> st.total_records + 1,
     missing_encrypted |-> st.missing_encrypted + (IF missing THEN 1 ELSE 0),
     decrypted_deleted |-> st.decrypted_deleted + (IF removed THEN 1 ELSE 0),
     records_deleted |-> st.records_deleted + (IF missing THEN 1 ELSE 0)]

\* a cleanup that deletes the row only when it found no decrypted file
DeletesRowUnlessSibling(missing, sibling) == missing /\ ~sibling

\* delete_firmware(rec.version_code) is reached whenever the encrypted file is
\* missing, whatever happened to the decrypted one
DeletesRow(missing, sibling) == missing

\* one iteration of the loop over records; return stats after the last.
\* dec_path.unlink() may raise OSError, which is ignored: the file stays and
\* is not counted
CleanupStep ==
    /\ pc = "cl_loop"
    /\ IF records = <<>>
       THEN Finish("ok") /\ UNCHANGED <<fw, dec>>
       ELSE LET rec == Head(records)
                missing == ~enc[rec].ex
                sibling == dec[rec] # "absent"
            IN  /\ Goto("cl_loop")
                /\ records' = Tail(records)
                /\ UNCHANGED <<ver, resume, skip_home_csc, cleanup_after,
                               start, written, decPos, idx>>
                /\ \E removed \in (IF missing /\ sibling THEN BOOLEAN ELSE {FALSE}) :
                      /\ dec' = IF removed THEN [dec EXCEPT ![rec] = "absent"] ELSE dec
                      /\ fw' = IF DeletesRow(missing, sibling)
                               THEN delete_firmware(fw, rec)
                               ELSE fw
                      /\ stats' = StatsAfter(stats, missing, removed)
    /\ UNCHANGED <<part, enc, dir, env>>

----------------------------------------------------------------------------
(* DeviceMonitor (app/device_monitor.py) *)

\* the monitor's configuration
unzip_home_csc == TRUE

\* the csc_filter lists a configuration can hold, as written by the user
CscFilterConfigs == {<<>>, <<" eux ">>}

\* the sales codes a device can report
DeviceCscs == {"eux", "XAA"}

\* str.strip().upper() on the strings above
StripUpper(raw) ==
    CASE raw \in {"eux", " eux ", "EUX"} -> "EUX"
      [] raw \in {"xaa", "XAA"} -> "XAA"
      [] raw = "" -> ""

\* csc_filter = {c.strip().upper() for c in csc_filter} if csc_filter else set()
NormalizeFilter(cfg) == {StripUpper(cfg[i]) : i \in DOMAIN cfg}

\* a filter that compares the sales code as the device reports it
CscRejectedCaseSensitive(filter, sales_code) ==
    filter # {} /\ sales_code # "" /\ sales_code \notin filter

\* device_csc = (device.sales_code or "").strip().upper()
\* if self.csc_filter and device_csc and device_csc not in self.csc_filter
CscRejected(filter, sales_code) ==
    LET device_csc == StripUpper(sales_code)
    IN  filter # {} /\ device_csc # "" /\ device_csc \notin filter
DeviceFirmwares == {V1, OldFw}

\* start(): monitoring = True, then the loop
StartMonitor ==
    /\ pc = "idle"
    /\ ~monitoring
    /\ monitoring' = TRUE
    /\ device_connected' = FALSE
    /\ pc' = "mon_poll"
    /\ stack' = <<"loop">>
    /\ outcome' = "none"
    /\ UNCHANGED <<audit, ui, download_in_progress, latest>>
    /\ UNCHANGED <<data, ver, resume, skip_home_csc, cleanup_after, start, written, decPos, idx, records, stop_task, size_bytes, csc_filter, others, plugged, devFw, devCsc>>
    /\ stats' = ZeroStats

\* stop(): the loop ends at its next test of self.monitoring
StopMonitor ==
    /\ monitoring
    /\ pc # "dead"
    /\ monitoring' = FALSE
    /\ UNCHANGED <<data, ctl, locals, stop_task, size_bytes, csc_filter, others, plugged, devFw, devCsc, device_connected>>

\* the environment: a device is plugged in or pulled out
Plug ==
    /\ monitoring
    /\ ~plugged
    /\ plugged' = TRUE
    /\ UNCHANGED <<data, ctl, locals, stop_task, size_bytes, csc_filter, others, devFw, devCsc, monitoring, device_connected>>

Unplug ==
    /\ monitoring
    /\ plugged
    /\ plugged' = FALSE
    /\ UNCHANGED <<data, ctl, locals, stop_task, size_bytes, csc_filter, others, devFw, devCsc, monitoring, device_connected>>

\* one pass of while self.monitoring: read_device_info_at() and what follows
\* up to the call of _handle_firmware_check, or one of the except clauses
NewConnectionAlways == TRUE

\* "if not device_connected:" - a found device is a new connection only while
\* the loop's connection state is clear
NewConnection == ~device_connected

MonPoll ==
    /\ pc = "mon_poll"
    /\ UNCHANGED <<data, locals, size_bytes, csc_filter, others, plugged, monitoring>>
    /\ IF ~monitoring
       THEN /\ pc' = "idle"
            /\ stack' = <<>>
            /\ UNCHANGED <<outcome, audit, ui, download_in_progress, latest>>
            /\ UNCHANGED <<stop_task, devFw, devCsc, device_connected>>
       ELSE \E found \in {plugged, FALSE}, f \in DeviceFirmwares, c \in DeviceCscs :
               IF found
               THEN IF ~NewConnection
                    THEN UNCHANGED <<ctl, stop_task, devFw, devCsc, device_connected>>
                    ELSE /\ device_connected' = TRUE
                         /\ devFw' = f
                         /\ devCsc' = c
                         /\ UNCHANGED <<stop_task, outcome, audit, download_in_progress, latest>>
                         /\ IF CscRejected(csc_filter, c)
                            THEN ui' = "warning" /\ UNCHANGED <<pc, stack>>
                            ELSE /\ ui' = "none"
                                 /\ pc' = "cap_log"
                                 /\ stack' = <<"loop", "check", "cap">>
               ELSE /\ device_connected' = FALSE
                    /\ UNCHANGED <<pc, stack, outcome, audit, download_in_progress,
                                   latest, devFw, devCsc>>
                    /\ IF plugged
                       THEN ui' = "info" /\ UNCHANGED stop_task
                       ELSE IF device_connected
                            THEN ui' = "info" /\ stop_task' = FALSE
                            ELSE UNCHANGED <<ui, stop_task>>

\* a check that looks at is_cached before it compares the versions
ChkBranchCachedFirst ==
    /\ pc = "chk_branch"
    /\ IF ~is_cached(latest) /\ latest = devFw
       THEN BackToLoop("uptodate", "success", download_in_progress)
       ELSE /\ pc' = "dad_start"
            /\ stack' = Append(stack, IF is_cached(latest) THEN "hcached" ELSE "hdownload") \o <<"dad">>
            /\ download_in_progress' = TRUE
            /\ ui' = IF is_cached(latest) THEN "info" ELSE ui
            /\ ver' = latest
            /\ resume' = TRUE
            /\ UNCHANGED <<outcome, audit, latest>>
            /\ UNCHANGED <<skip_home_csc, cleanup_after, start, written, decPos, idx, records, stats>>
    /\ UNCHANGED <<data, env>>

\* _handle_firmware_check after check_and_prepare_firmware has returned
ChkBranch ==
    /\ pc = "chk_branch"
    /\ IF latest = devFw
       THEN BackToLoop("uptodate", "success", download_in_progress)
       ELSE /\ pc' = "dad_start"
            /\ stack' = Append(stack, IF is_cached(latest) THEN "hcached" ELSE "hdownload") \o <<"dad">>
            /\ download_in_progress' = TRUE
            /\ ui' = IF is_cached(latest) THEN "info" ELSE ui
            /\ ver' = latest
            /\ resume' = TRUE
            /\ UNCHANGED <<outcome, audit, latest>>
            /\ UNCHANGED <<skip_home_csc, cleanup_after, start, written, decPos, idx, records, stats>>
    /\ UNCHANGED <<data, env>>

\* _extract_firmware: the test of the path, mkdir, zipfile.ZipFile
MxOpen ==
    /\ pc = "mx_open"
    /\ IF dec[ver] = "complete"
       THEN Goto("mx_loop") /\ idx' = 0
            /\ UNCHANGED <<ver, resume, skip_home_csc, cleanup_after, start,
                           written, decPos, records, stats>>
       ELSE BackToLoop("ok", "success", FALSE)
    /\ UNCHANGED <<data, env>>

\* one iteration of the monitor's extraction loop; after the last member the
\* handler reports success
MxMember ==
    /\ pc = "mx_loop"
    /\ LET members == FilteredMembers(~unzip_home_csc)
       IN  IF idx < Len(members)
           THEN IF stop_task
                THEN Raise(Cancelled) /\ UNCHANGED dir
                ELSE /\ Goto("mx_loop")
                     /\ dir' = [dir EXCEPT ![ver] = @ \cup {members[idx + 1]}]
                     /\ idx' = idx + 1
                     /\ UNCHANGED <<ver, resume, skip_home_csc, cleanup_after,
                                    start, written, decPos, records, stats>>
           ELSE BackToLoop("ok", "success", FALSE) /\ UNCHANGED dir
    /\ UNCHANGED <<fw, part, enc, dec, env>>

\* the user presses stop while a call is running; under the monitor the stop
\* button is enabled only while download_in_progress is set
UserStop ==
    /\ pc \notin {"idle", "dead"}
    /\ stack[1] = "loop" => download_in_progress
    /\ ~stop_task
    /\ stop_task' = TRUE
    /\ UNCHANGED <<data, ctl, locals, size_bytes, csc_filter, others, plugged, devFw, devCsc, monitoring, device_connected>>

\* the process is killed in the middle of a call and started again: the
\* files and the database stay, what an open output file had buffered is lost
Kill ==
    /\ pc \notin {"idle", "dead"}
    /\ stack[1] # "loop"
    /\ Finish("killed")
    /\ IF pc = "god_chunk"
       THEN \E k \in start..written :
               part' = [part EXCEPT ![Code] = File(SubSeq(@.data, 1, k))]
       ELSE UNCHANGED part
    /\ IF pc = "dec_loop"
       THEN dec' = [dec EXCEPT ![ver] = "partial"]
       ELSE UNCHANGED dec
    /\ IF pc = "ext_cleanup" /\ ver # NoVer /\ find_firmware(ver) # NoRow
       THEN \E unlinked \in BOOLEAN :
               enc' = IF unlinked THEN [enc EXCEPT ![ver] = Absent] ELSE enc
       ELSE UNCHANGED enc
    /\ stop_task' = FALSE
    /\ UNCHANGED <<fw, dir, size_bytes, csc_filter, others, plugged, devFw, devCsc, monitoring, device_connected>>

----------------------------------------------------------------------------
(* Direct calls of the repository functions (download/firmware_repository.py) *)

Flags == {"downloaded", "decrypted", "extracted"}

\* upsert_firmware(rec) with a record of the caller's making
CallUpsertFirmware ==
    /\ pc = "idle"
    /\ \E c \in CalledCodes, dl \in {0, 1}, de \in {0, 1}, ex \in {0, 1} :
          fw' = upsert_firmware(fw, c, FirmwareRecord(dl, de, ex))
    /\ outcome' = "ok"
    /\ UNCHANGED <<pc, stack, audit, ui, download_in_progress, latest>>
    /\ UNCHANGED <<part, enc, dec, dir, ver, resume, skip_home_csc, cleanup_after, start, written, decPos, idx, records, env>>
    /\ stats' = ZeroStats

\* update_firmware_status(version_code, downloaded=..., decrypted=..., extracted=...)
\* with at least one flag given
CallUpdateFirmwareStatus ==
    /\ pc = "idle"
    /\ \E v \in VerInputs, given \in (SUBSET Flags) \ {{}} :
          \E updates \in [given -> {0, 1}] :
             fw' = update_firmware_status(fw, v, updates)
    /\ outcome' = "ok"
    /\ UNCHANGED <<pc, stack, audit, ui, download_in_progress, latest>>
    /\ UNCHANGED <<part, enc, dec, dir, ver, resume, skip_home_csc, cleanup_after, start, written, decPos, idx, records, env>>
    /\ stats' = ZeroStats

----------------------------------------------------------------------------
(* imei_log table (download/imei_repository.py, download/sql/__init__.py) *)

\* the last value of the clock
MaxTime == 2

\* the (session_id, imei) pairs of the calls: two devices in one session, and
\* one of them again in another session
ImeiKeys == {<<"s1", "i1">>, <<"s1", "i2">>, <<"s2", "i1">>}
FusStatuses == {"unknown", "error"}

\* the rows of a table that have the given (session_id, imei)
RowsOfKey(table, session_id, imei) ==
    {r \in table : r.session_id = session_id /\ r.imei = imei}

\* the rowid SQLite gives a new row of an INTEGER PRIMARY KEY table
NextRowid(table) ==
    IF table = {} THEN 1
    ELSE (CHOOSE r \in table : \A q \in table : q.id <= r.id).id + 1

\* the row the INSERT would store
NewImeiRow(table, now, session_id, imei, status_fus) ==
    [id |-> NextRowid(table), session_id |-> session_id, imei |-> imei,
     status_fus |-> status_fus, status_upgrade |-> "unknown",
     created_at |-> now, updated_at |-> now]

\* an INSERT without the ON CONFLICT clause, on a table without the unique key
upsert_imei_rows_insert_only(table, now, session_id, imei, status_fus) ==
    table \cup {NewImeiRow(table, now, session_id, imei, status_fus)}

\* INSERT OR REPLACE: the row in conflict is deleted and a new one inserted
upsert_imei_rows_replace(table, now, session_id, imei, status_fus) ==
    LET rest == table \ RowsOfKey(table, session_id, imei)
    IN  rest \cup {NewImeiRow(table, now, session_id, imei, status_fus)}

\* the statement of upsert_imei_event on the table: INSERT ... ON
\* CONFLICT(session_id, imei) DO UPDATE SET <every column but id, session_id,
\* imei, created_at> = excluded.<column>
upsert_imei_rows(table, now, session_id, imei, status_fus) ==
    IF RowsOfKey(table, session_id, imei) = {}
    THEN table \cup {NewImeiRow(table, now, session_id, imei, status_fus)}
    ELSE {IF r \in RowsOfKey(table, session_id, imei)
          THEN [r EXCEPT !.status_fus = status_fus, !.status_upgrade = "unknown",
                         !.updated_at = now]
          ELSE r : r \in table}

\* upsert_imei_event called by any caller: now = _iso_now(), then the statement
CallUpsertImeiEvent ==
    /\ \E key \in ImeiKeys, status_fus \in FusStatuses :
          imei_log' = upsert_imei_rows(imei_log, clock, key[1], key[2], status_fus)
    /\ UNCHANGED <<service, clock, notAudit>>

\* time passes
Tick ==
    /\ clock < MaxTime
    /\ clock' = clock + 1
    /\ UNCHANGED <<service, imei_log, notAudit>>

----------------------------------------------------------------------------
(* Repository writes and their transactions (download/firmware_repository.py,
   download/imei_repository.py, download/db.py) *)

NoWrite == [fn |-> "none", a |-> <<>>, b |-> 0]
NoTables == <<>>

\* csc arguments of length 3, 2 and 6
CscArgs == {<<"E", "U", "X">>, <<"E", "U">>, <<"E", "U", "X", "/", "F", "T">>}

UpgradeStatuses == {"queued", "in_progress", "ok", "failed", "skipped", "unknown"}

\* the functions that issue BEGIN before their statement
FirmwareWrites == {"upsert_firmware", "update_firmware_status", "delete_firmware"}

\* the calls: a is the version_code, the (session_id, imei) or the id; b is the
\* downloaded flag of the record, the decrypted flag to set, the csc or the
\* status_upgrade
Writes ==
    [fn : {"upsert_firmware"}, a : {V1, V1Short}, b : {1, 2}]
    \cup [fn : {"update_firmware_status"}, a : {V1}, b : {1, 2}]
    \cup [fn : {"delete_firmware"}, a : {V1}, b : {0}]
    \cup [fn : {"upsert_imei_event"}, a : ImeiKeys, b : CscArgs]
    \cup [fn : {"set_upgrade_status"}, a : {1, 2}, b : {"ok", "flashed"}]

\* a schema without its CHECK constraints
StatementAllowedNoCheck(w) == TRUE

\* the CHECK constraints of FIRMWARE_SCHEMA and IMEI_LOG_SCHEMA on the rows
\* the statement of w writes
StatementAllowed(w) ==
    CASE w.fn = "upsert_firmware" -> Len(w.a) - 1 = 3 /\ w.b \in {0, 1}
      [] w.fn = "update_firmware_status" -> find_firmware(w.a) = NoRow \/ w.b \in {0, 1}
      [] w.fn = "delete_firmware" -> TRUE
      [] w.fn = "upsert_imei_event" -> Len(w.b) \in 3..5
      [] w.fn = "set_upgrade_status" ->
            (\A r \in imei_log : r.id # w.a) \/ w.b \in UpgradeStatuses

\* the tables after the statement of w
FirmwareAfter(w) ==
    CASE w.fn = "upsert_firmware" ->
            IF w.a \in Codes THEN upsert_firmware(fw, w.a, FirmwareRecord(w.b, 0, 0)) ELSE fw
      [] w.fn = "update_firmware_status" ->
            update_firmware_status(fw, w.a, [decrypted |-> w.b])
      [] w.fn = "delete_firmware" -> delete_firmware(fw, w.a)
      [] OTHER -> fw

ImeiLogAfter(w) ==
    CASE w.fn = "upsert_imei_event" ->
            upsert_imei_rows(imei_log, clock, w.a[1], w.a[2], "unknown")
      [] w.fn = "set_upgrade_status" ->
            {IF r.id = w.a THEN [r EXCEPT !.status_upgrade = w.b] ELSE r : r \in imei_log}
      [] OTHER -> imei_log

\* what the steps of a write leave alone
dbFrame == <<part, enc, dec, dir, locals, audit, ui, download_in_progress, latest,
             stop_task, size_bytes, csc_filter, plugged, devFw, devCsc,
             monitoring, device_connected, clock, notDb>>

\* the write returns or raises to its caller; the connection is closed
WriteEnds(res) ==
    /\ pc' = "idle"
    /\ stack' = <<>>
    /\ outcome' = res
    /\ write' = NoWrite

\* a write is called: with connect() as conn
CallWrite ==
    /\ pc = "idle"
    /\ txn = "none"
    /\ \E w \in Writes :
          /\ write' = w
          /\ pc' = IF w.fn \in FirmwareWrites THEN "db_begin" ELSE "db_execute"
    /\ called_on' = <<fw, imei_log>>
    /\ stack' = <<"write">>
    /\ outcome' = "none"
    /\ UNCHANGED <<fw, imei_log, txn, journal, dbFrame>>

\* conn.execute("BEGIN;")
DbBegin ==
    /\ pc = "db_begin"
    /\ txn' = "open"
    /\ journal' = <<fw, imei_log>>
    /\ pc' = "db_execute"
    /\ UNCHANGED <<fw, imei_log, write, called_on, stack, outcome, dbFrame>>

\* conn.execute(sql, params): the statement is applied as a whole, or it
\* raises (a constraint, or the database being locked or unwritable) and
\* changes nothing. Outside a transaction the connection is in autocommit
\* mode and the function returns or raises right away.
DbExecute ==
    /\ pc = "db_execute"
    /\ \E error \in {IF StatementAllowed(write) THEN "none" ELSE "IntegrityError",
                      "OperationalError"} :
          IF error = "none"
          THEN /\ fw' = FirmwareAfter(write)
               /\ imei_log' = ImeiLogAfter(write)
               /\ IF txn = "open"
                  THEN pc' = "db_commit" /\ UNCHANGED <<stack, outcome, write>>
                  ELSE WriteEnds("ok")
          ELSE /\ UNCHANGED <<fw, imei_log>>
               /\ IF txn = "open"
                  THEN /\ pc' = "db_rollback"
                       /\ outcome' = error
                       /\ UNCHANGED <<stack, write>>
                  ELSE WriteEnds(error)
    /\ UNCHANGED <<called_on, txn, journal, dbFrame>>

\* a rollback that ends the transaction and keeps what was written
DbRollbackKeeping ==
    /\ pc = "db_rollback"
    /\ txn' = "none"
    /\ journal' = NoTables
    /\ WriteEnds(outcome)
    /\ UNCHANGED <<fw, imei_log, called_on, dbFrame>>

\* conn.execute("COMMIT;"), which can fail as well
DbCommit ==
    /\ pc = "db_commit"
    /\ \E error \in {"none", "OperationalError"} :
          IF error = "none"
          THEN /\ txn' = "none"
               /\ journal' = NoTables
               /\ WriteEnds("ok")
          ELSE /\ pc' = "db_rollback"
               /\ outcome' = error
               /\ UNCHANGED <<stack, write, txn, journal>>
    /\ UNCHANGED <<fw, imei_log, called_on, dbFrame>>

\* except Exception: conn.execute("ROLLBACK;"); raise
DbRollback ==
    /\ pc = "db_rollback"
    /\ fw' = journal[1]
    /\ imei_log' = journal[2]
    /\ txn' = "none"
    /\ journal' = NoTables
    /\ WriteEnds(outcome)
    /\ UNCHANGED <<called_on, dbFrame>>

----------------------------------------------------------------------------
(* The monitor threads of the GUI: start_monitoring, stop_monitoring and *)
(* the loop of _monitor_devices, one thread per successful start          *)

MaxThreads == 3

Threads == 1..MaxThreads

NotStarted == [at |-> "none", device_connected |-> FALSE]

\* the thread is inside the while loop of _monitor_devices
Active(t) == loop[t].at \in {"while", "read", "pipeline", "sleep"}

\* the thread is talking to the device or running the firmware pipeline
Busy(t) == loop[t].at \in {"read", "pipeline"}

threadFrame ==
    <<data, locals, ctl, stop_task, size_bytes, csc_filter, plugged, devFw,
      devCsc, device_connected, notThreads>>

\* if not self.monitoring: self.monitoring = True; Thread(...).start()
start_monitoring ==
    /\ ~monitoring
    /\ monitoring' = TRUE
    /\ \E t \in Threads :
        /\ loop[t].at = "none"
        /\ \A u \in Threads : u < t => loop[u].at # "none"
        /\ loop' = [loop EXCEPT ![t] = [at |-> "while", device_connected |-> FALSE]]
    /\ UNCHANGED threadFrame

\* self.monitoring = False, and nothing else: the thread is not joined
stop_monitoring ==
    /\ monitoring
    /\ monitoring' = FALSE
    /\ UNCHANGED <<loop, threadFrame>>

\* while self.monitoring:
LoopWhile(t) ==
    /\ loop[t].at = "while"
    /\ loop' = [loop EXCEPT ![t].at = IF monitoring THEN "read" ELSE "done"]
    /\ UNCHANGED <<monitoring, threadFrame>>

\* read_device_info_at(): a device, DeviceNotFoundError or DeviceError
LoopRead(t) ==
    /\ loop[t].at = "read"
    /\ \E found \in BOOLEAN :
        loop' = [loop EXCEPT ![t] =
                    [at |-> IF found /\ ~loop[t].device_connected
                            THEN "pipeline" ELSE "sleep",
                     device_connected |-> found]]
    /\ UNCHANGED <<monitoring, threadFrame>>

\* the firmware check and download of a newly connected device
LoopPipeline(t) ==
    /\ loop[t].at = "pipeline"
    /\ loop' = [loop EXCEPT ![t].at = "sleep"]
    /\ UNCHANGED <<monitoring, threadFrame>>

\* time.sleep(1) or time.sleep(2) at the end of an iteration
LoopSleep(t) ==
    /\ loop[t].at = "sleep"
    /\ loop' = [loop EXCEPT ![t].at = "while"]
    /\ UNCHANGED <<monitoring, threadFrame>>

----------------------------------------------------------------------------
(* The FUS client: the NONCE and JSESSIONID rotation of _makereq *)

NoHeader == "(absent)"
Raises == "(raises)"

\* NONCE header values a server can send: two well-formed ones, one that is
\* not the base64 of a padded AES block, one whose plaintext is too short
NonceHeaders == {"E1", "E2", "Egarbled", "Eshort"}

Cookies == {"J1", "J2"}

StatusCodes == {200, 500}

Responses ==
    [nonce : NonceHeaders \cup {NoHeader},
     cookie : Cookies \cup {NoHeader},
     status : StatusCodes]

\* base64-decode, AES-CBC-decrypt with KEY_1, unpad, decode; fails on
\* anything that is not such a ciphertext
decrypt_nonce(enc_nonce) ==
    CASE enc_nonce = "E1" -> "N1"
      [] enc_nonce = "E2" -> "N2"
      [] enc_nonce = "Eshort" -> "Nshort"
      [] OTHER -> Raises

\* derive_key reads nonce[0..15]: IndexError for a shorter nonce
make_signature(nonce) ==
    CASE nonce = "N1" -> "S1"
      [] nonce = "N2" -> "S2"
      [] OTHER -> Raises

\* the fields assigned by __init__ before the bootstrap request
NoClient ==
    [made |-> FALSE, enc_nonce |-> "", nonce |-> "", auth |-> "", sessid |-> ""]

NoReply ==
    [op |-> "none", r |-> [nonce |-> NoHeader, cookie |-> NoHeader, status |-> 200],
     result |-> "none", before |-> NoClient]

\* the client after the response r has been handled, and how the call ends
makereq(c, r) ==
    LET n == decrypt_nonce(r.nonce)
        s == make_signature(n)
        failed == r.nonce # NoHeader /\ (n = Raises \/ s = Raises)
        c1 == IF r.nonce = NoHeader THEN c
              ELSE IF n = Raises THEN [c EXCEPT !.enc_nonce = r.nonce]
              ELSE IF s = Raises THEN [c EXCEPT !.enc_nonce = r.nonce, !.nonce = n]
              ELSE [c EXCEPT !.enc_nonce = r.nonce, !.nonce = n, !.auth = s]
        c2 == IF ~failed /\ r.cookie # NoHeader
              THEN [c1 EXCEPT !.sessid = r.cookie] ELSE c1
    IN  [client |-> c2,
         result |-> IF failed THEN "Exception"
                    ELSE IF r.status # 200 THEN "HTTPError" ELSE "ok"]

fusFrame == <<service, notFus>>

\* FUSClient(): the bootstrap request; the object exists only if it returns
FUSClientInit ==
    /\ ~client.made
    /\ \E r \in Responses :
        LET m == makereq(NoClient, r) IN
        /\ client' = IF m.result = "ok"
                     THEN [m.client EXCEPT !.made = TRUE] ELSE NoClient
        /\ reply' = [op |-> "bootstrap", r |-> r, result |-> m.result,
                     before |-> NoClient]
    /\ UNCHANGED fusFrame

\* client.inform(payload) and client.init(payload)
FUSRequest(op) ==
    /\ client.made
    /\ \E r \in Responses :
        LET m == makereq(client, r) IN
        /\ client' = m.client
        /\ reply' = [op |-> op, r |-> r, result |-> m.result, before |-> client]
    /\ UNCHANGED fusFrame

\* the service is done with the client; the next call makes a new one
FUSClientDropped ==
    /\ client.made
    /\ client' = NoClient
    /\ reply' = [NoReply EXCEPT !.op = "dropped"]
    /\ UNCHANGED fusFrame

----------------------------------------------------------------------------
(* enter_odin_mode: the download-mode command, then probes until a deadline. *)
(* Time is counted in units of check_interval from start_time.               *)

MaxWait == 3
ProbeMax == 2
CheckInterval == 1

\* what one call of is_odin_mode can give
ProbeOutcomes == {"LOKE", "nothing", "DeviceOdinError"}

NoOdinCall ==
    [at |-> "idle", now |-> 0, deadline |-> 0, probes |-> <<>>, result |-> "none"]

OdinLoop == {"while", "sleep", "probe", "sleep_after"}

\* except DeviceOdinError: pass
ProbeEndsOnError(saw) ==
    IF saw = "LOKE" THEN "done"
    ELSE IF saw = "DeviceOdinError" THEN "raised" ELSE "sleep_after"

\* where the call goes after a probe: return True on LOKE, otherwise the
\* second sleep of the iteration
ProbeEnds(saw) ==
    IF saw = "LOKE" THEN "done" ELSE "sleep_after"

odinFrame == <<service, notOdin>>

\* enter_odin_mode(port, wait_timeout=w): enter_download_mode, the initial
\* wait, start_time and deadline
CallEnterOdinMode ==
    /\ odin.at \in {"idle", "done", "raised"}
    /\ \E w \in 0..MaxWait, sent \in BOOLEAN :
        odin' = IF sent
                THEN [at |-> "while", now |-> 0, deadline |-> w,
                      probes |-> <<>>, result |-> "none"]
                ELSE [at |-> "raised", now |-> 0, deadline |-> w,
                      probes |-> <<>>, result |-> "DeviceATError"]
    /\ UNCHANGED odinFrame

\* while time.monotonic() < deadline: ... return False
OdinWhile ==
    /\ odin.at = "while"
    /\ odin' = IF odin.now < odin.deadline
               THEN [odin EXCEPT !.at = "sleep"]
               ELSE [odin EXCEPT !.at = "done", !.result = "False"]
    /\ UNCHANGED odinFrame

\* time.sleep(check_interval) before the probe
OdinSleep ==
    /\ odin.at = "sleep"
    /\ odin' = [odin EXCEPT !.at = "probe", !.now = @ + CheckInterval]
    /\ UNCHANGED odinFrame

\* is_odin_mode(target_port, timeout=2.0), which takes up to ProbeMax
OdinProbe ==
    /\ odin.at = "probe"
    /\ \E saw \in ProbeOutcomes, took \in 0..ProbeMax :
        odin' = [odin EXCEPT
                    !.at = ProbeEnds(saw),
                    !.now = @ + took,
                    !.probes = Append(@, [started |-> odin.now, saw |-> saw]),
                    !.result = IF ProbeEnds(saw) = "done" THEN "True"
                               ELSE IF ProbeEnds(saw) = "raised" THEN saw
                               ELSE @]
    /\ UNCHANGED odinFrame

\* time.sleep(check_interval) at the end of the iteration
OdinSleepAfter ==
    /\ odin.at = "sleep_after"
    /\ odin' = [odin EXCEPT !.at = "while", !.now = @ + CheckInterval]
    /\ UNCHANGED odinFrame

----------------------------------------------------------------------------
(* The serial handles of the device channel: send_at_command,               *)
(* enter_download_mode and is_odin_mode open the port in a with block,      *)
(* read_device_info opens it by hand unless the caller supplies a handle    *)

MaxHandles == 3

SerialFunctions ==
    {"send_at_command", "enter_download_mode", "is_odin_mode", "read_device_info"}

\* how the exchange over an open port can end
ExchangeOutcomes == {"ok", "SerialException", "no response", "ValueError"}

NoSerialCall ==
    [at |-> "idle", fn |-> "none", port_instance |-> FALSE, opened |-> 0,
     given |-> "none", result |-> "none"]

\* the exception the caller sees for the way the exchange ended
SerialResult(fn, ended) ==
    CASE ended = "ok" -> "ok"
      [] ended = "ValueError" -> "ValueError"
      [] fn \in {"send_at_command", "enter_download_mode"} -> "DeviceATError"
      [] OTHER -> "DeviceOdinError"

\* the handles the channel has open once the with block or the finally
\* clause has run: its own handle is closed, a supplied one is not its own
Released(call) ==
    IF call.port_instance THEN call.opened ELSE call.opened - 1

serialFrame == <<service, notSerial>>

\* a call of one of the four functions; port_instance only for
\* read_device_info, and then the caller's handle is open
CallSerial ==
    /\ channel.at = "idle"
    /\ channel.opened < MaxHandles
    /\ \E fn \in SerialFunctions,
          supplied \in BOOLEAN :
        /\ supplied => fn = "read_device_info"
        /\ channel' = [at |-> IF supplied THEN "exchange" ELSE "open",
                       fn |-> fn, port_instance |-> supplied,
                       opened |-> channel.opened,
                       given |-> IF supplied THEN "open" ELSE "none",
                       result |-> "none"]
    /\ UNCHANGED serialFrame

\* serial.Serial(port=...): the port opens or SerialException
SerialOpen ==
    /\ channel.at = "open"
    /\ \E ok \in BOOLEAN :
        channel' =
            IF ok
            THEN [channel EXCEPT
                    !.opened = @ + 1,
                    !.at = IF channel.fn = "read_device_info"
                           THEN "configure" ELSE "exchange"]
            ELSE [channel EXCEPT
                    !.at = "idle",
                    !.result = IF channel.fn = "read_device_info"
                               THEN "SerialException"
                               ELSE SerialResult(channel.fn, "SerialException")]
    /\ UNCHANGED serialFrame

\* port.dtr = False; port.rts = False: two modem-control requests on the
\* open port, made before the try block of read_device_info is entered
SerialConfigure ==
    /\ channel.at = "configure"
    /\ \E ok \in BOOLEAN :
        channel' = IF ok THEN [channel EXCEPT !.at = "exchange"]
                   ELSE [channel EXCEPT !.at = "idle", !.result = "OSError"]
    /\ UNCHANGED serialFrame

\* the command, the wait and the read, then the exit of the with block or
\* the finally clause
SerialExchange ==
    /\ channel.at = "exchange"
    /\ \E ended \in ExchangeOutcomes :
        /\ ended = "ValueError" => channel.fn = "read_device_info"
        /\ channel' = [channel EXCEPT
                        !.at = "idle",
                        !.opened = Released(channel),
                        !.result = SerialResult(channel.fn, ended)]
    /\ UNCHANGED serialFrame

----------------------------------------------------------------------------
(* normalize_vercode on text: split on "/", complete, join with "/".        *)
(* A text is a sequence of characters.                                      *)

MaxVerLen == 5

VerChars == {"A", "B", "/"}

VerTexts == UNION {[1..n -> VerChars] : n \in 0..MaxVerLen}

\* vercode.split("/"): one part more than there are "/", parts may be empty
RECURSIVE SplitSlash(_)
SplitSlash(text) ==
    IF text = <<>> THEN << <<>> >>
    ELSE LET rest == SplitSlash(Tail(text)) IN
         IF Head(text) = "/" THEN << <<>> >> \o rest
         ELSE << <<Head(text)>> \o rest[1] >> \o Tail(rest)

\* "/".join(parts)
RECURSIVE JoinSlash(_)
JoinSlash(parts) ==
    IF Len(parts) = 1 THEN parts[1]
    ELSE parts[1] \o <<"/">> \o JoinSlash(Tail(parts))

AppendFirstAlways(parts) == Append(parts, parts[1])

\* if len(parts) == 3: parts.append(parts[0])
AppendFirst(parts) ==
    IF Len(parts) = 3 THEN Append(parts, parts[1]) ELSE parts

\* if parts[2] == "": parts[2] = parts[0]
FillThird(parts) ==
    IF parts[3] = <<>> THEN [parts EXCEPT ![3] = parts[1]] ELSE parts

NotCalled == [ended |-> "not called", value |-> <<>>]

\* the value normalize_vercode returns for a text, or the IndexError of
\* parts[2] when the text has fewer than three parts
normalize_vercode_text(vercode) ==
    LET parts == AppendFirst(SplitSlash(vercode)) IN
    IF Len(parts) < 3 THEN [ended |-> "IndexError", value |-> <<>>]
    ELSE [ended |-> "returned", value |-> JoinSlash(FillThird(parts))]

\* normalize_vercode applied to what a call of it gave: an exception of the
\* inner call is the outcome of the whole expression
normalize_again(first) ==
    IF first.ended = "returned" THEN normalize_vercode_text(first.value)
    ELSE first

NoNormalize == [vercode |-> <<>>, once |-> NotCalled, twice |-> NotCalled]

normFrame == <<service, notNormalize>>

\* normalize_vercode(x) for a text x
CallNormalize ==
    /\ norm.once = NotCalled
    /\ \E x \in VerTexts :
        norm' = [vercode |-> x, once |-> normalize_vercode_text(x),
                 twice |-> NotCalled]
    /\ UNCHANGED normFrame

\* normalize_vercode(normalize_vercode(x))
CallNormalizeAgain ==
    /\ norm.once # NotCalled
    /\ norm.twice = NotCalled
    /\ norm' = [norm EXCEPT !.twice = normalize_again(norm.once)]
    /\ UNCHANGED normFrame

----------------------------------------------------------------------------
(* logic_check: one character of the input per character of the nonce.      *)
(* The input is a sequence of characters, the nonce the sequence of the     *)
(* code points (ord) of its characters.                                     *)

MaxInput == 17
MaxNonceLen == 2
MinInput == 16

Letters ==
    <<"a", "b", "c", "d", "e", "f", "g", "h", "i", "j",
      "k", "l", "m", "n", "o", "p", "q", "r", "s", "t">>

Reversed(text) == [i \in 1..Len(text) |-> text[Len(text) + 1 - i]]

\* inputs of every length up to MaxInput, in two orders of the letters
LogicInputs ==
    {SubSeq(Letters, 1, n) : n \in 0..MaxInput}
        \cup {Reversed(SubSeq(Letters, 1, n)) : n \in 0..MaxInput}

\* code points of "0", "A", "o", "\x7f" and of a character beyond one byte
NonceCodes == {48, 65, 111, 127, 273}

Nonces == UNION {[1..n -> NonceCodes] : n \in 0..MaxNonceLen}

\* ord(c) & 0xF
LowNibble(code) == code % 16

TooShortAt16(inp) == Len(inp) <= MinInput

\* if len(inp) < 16: raise ValueError
TooShort(inp) == Len(inp) < MinInput

\* "".join(inp[ord(c) & 0xF] for c in nonce); Python counts from 0
logic_check(inp, nonce) ==
    IF TooShort(inp) THEN [ended |-> "ValueError", value |-> <<>>]
    ELSE [ended |-> "returned",
          value |-> [i \in 1..Len(nonce) |-> inp[LowNibble(nonce[i]) + 1]]]

NoLogicCheck == [inp |-> <<>>, nonce |-> <<>>, result |-> NotCalled]

\* logic_check(inp, nonce)
CallLogicCheck ==
    /\ logic.result = NotCalled
    /\ \E inp \in LogicInputs, nonce \in Nonces :
        logic' = [inp |-> inp, nonce |-> nonce, result |-> logic_check(inp, nonce)]
    /\ UNCHANGED <<service, notLogic>>

----------------------------------------------------------------------------
(* _decrypt_progress on contents: the input is read buffer by buffer,       *)
(* every buffer is decrypted, the buffer that ends the input is unpadded    *)

MaxStreamLen == 48

\* values of the last byte of the plaintext: no padding length, the
\* smallest and the largest padding length, and two values beyond a block
PadBytes == {0, 1, 16, 17, 40}

\* chunk_size: one, two or three AES blocks
ChunkSizes == {AES_BLOCK, 2 * AES_BLOCK, 3 * AES_BLOCK}

\* a plaintext of n bytes that ends with the byte pad
Plaintext(n, pad) == [i \in 1..n |-> IF i = n THEN pad ELSE 100 + i]

\* the file that decrypts to a plaintext: ECB works on each block alone,
\* here on each byte alone
Encrypted(plain) == [i \in 1..Len(plain) |-> (plain[i] + 77) % 256]

\* cipher.decrypt(block)
cipher_decrypt(block) == [i \in 1..Len(block) |-> (block[i] + 179) % 256]

\* data[: -data[-1]]: a last byte 0 gives data[:0], the empty text
pkcs_unpad(bytes) ==
    LET n == bytes[Len(bytes)] IN
    IF n = 0 \/ n >= Len(bytes) THEN <<>> ELSE SubSeq(bytes, 1, Len(bytes) - n)

\* decrypt every block and unpad the last block only
DecryptWhole(input) ==
    LET plain == cipher_decrypt(input)
        n == Len(input)
    IN  IF n = 0 THEN <<>>
        ELSE SubSeq(plain, 1, n - AES_BLOCK)
                \o pkcs_unpad(SubSeq(plain, n - AES_BLOCK + 1, n))

NoStream ==
    [fin |-> <<>>, chunk_size |-> 0, pos |-> 0, fout |-> <<>>, ended |-> "not called"]

\* dec = cipher.decrypt(block); if next_pos == total: dec = pkcs_unpad(dec)
Decrypted(block, next_pos, total) ==
    IF next_pos = total THEN pkcs_unpad(cipher_decrypt(block))
    ELSE cipher_decrypt(block)

\* _decrypt_progress(fin, fout, key, total, chunk_size=c): the check of total
CallDecryptProgress ==
    /\ stream = NoStream
    /\ \E n \in 0..MaxStreamLen, pad \in PadBytes, c \in ChunkSizes :
        stream' = [fin |-> Encrypted(Plaintext(n, pad)), chunk_size |-> c,
                   pos |-> 0, fout |-> <<>>,
                   ended |-> IF n % AES_BLOCK # 0 THEN "DecryptError"
                             ELSE "running"]
    /\ UNCHANGED <<service, notStream>>

\* one iteration of the loop: fin.read(chunk_size), decrypt, write
DecryptRead ==
    /\ stream.ended = "running"
    /\ LET total == Len(stream.fin)
           next_pos == Min(stream.pos + stream.chunk_size, total)
           block == SubSeq(stream.fin, stream.pos + 1, next_pos)
       IN  stream' =
             IF block = <<>> THEN [stream EXCEPT !.ended = "returned"]
             ELSE [stream EXCEPT
                     !.pos = next_pos,
                     !.fout = @ \o Decrypted(block, next_pos, total)]
    /\ UNCHANGED <<service, notStream>>

----------------------------------------------------------------------------
(* The acquisition sequence of get_or_download_firmware: FUSClient(), then  *)
(* inform, init and stream, each request built from the client's fields.    *)

\* a request as it is sent: the nonce its LOGIC_CHECK was computed from, the
\* nonce and the signature of its Authorization header, its JSESSIONID cookie
Request(op, logic_nonce, auth_nonce, signature, sessid) ==
    [op |-> op, logic_nonce |-> logic_nonce, auth_nonce |-> auth_nonce,
     signature |-> signature, sessid |-> sessid]

\* _makereq(path, data): headers = self._headers(), cookies = JSESSIONID
MakereqRequest(op, c, logic_nonce) ==
    Request(op, logic_nonce, "", c.auth, c.sessid)

\* stream(): headers = self._headers(with_server_nonce=True), no cookies
StreamRequest(c) ==
    Request("stream", NoHeader, c.enc_nonce, c.auth, NoHeader)

NoAcq == [at |-> "idle", client |-> NoClient, sent |-> <<>>, got |-> <<>>]

acqFrame == <<service, notAcq>>

\* client = FUSClient(): the bootstrap request and its response
AcqBootstrap ==
    /\ acq.at = "idle"
    /\ \E r \in Responses :
        LET m == makereq(NoClient, r) IN
        acq' = [at |-> IF m.result = "ok" THEN "inform" ELSE "raised",
                client |-> m.client,
                sent |-> <<MakereqRequest("bootstrap", NoClient, NoHeader)>>,
                got |-> <<r>>]
    /\ UNCHANGED acqFrame

\* build_binary_inform(version_norm, ..., client.nonce), where logic_check
\* raises ValueError for a version shorter than 16 characters;
\* client.inform(payload); parse_inform(root)
AcqInform ==
    /\ acq.at = "inform"
    /\ \E long_enough \in BOOLEAN, parsed \in BOOLEAN, r \in Responses :
        LET m == makereq(acq.client, r) IN
        acq' = IF long_enough
               THEN [at |-> IF m.result = "ok" /\ parsed THEN "init" ELSE "raised",
                     client |-> m.client,
                     sent |-> Append(acq.sent,
                                 MakereqRequest("inform", acq.client, acq.client.nonce)),
                     got |-> Append(acq.got, r)]
               ELSE [acq EXCEPT !.at = "raised"]
    /\ UNCHANGED acqFrame

\* build_binary_init(info.filename, client.nonce); client.init(payload)
AcqInit ==
    /\ acq.at = "init"
    /\ \E long_enough \in BOOLEAN, r \in Responses :
        LET m == makereq(acq.client, r) IN
        acq' = IF long_enough
               THEN [at |-> IF m.result = "ok" THEN "stream" ELSE "raised",
                     client |-> m.client,
                     sent |-> Append(acq.sent,
                                 MakereqRequest("init", acq.client, acq.client.nonce)),
                     got |-> Append(acq.got, r)]
               ELSE [acq EXCEPT !.at = "raised"]
    /\ UNCHANGED acqFrame

\* resp = client.stream(remote, start=start); the response rotates nothing
AcqStream ==
    /\ acq.at = "stream"
    /\ \E ok \in BOOLEAN :
        acq' = [acq EXCEPT !.at = IF ok THEN "streaming" ELSE "raised",
                           !.sent = Append(@, StreamRequest(acq.client))]
    /\ UNCHANGED acqFrame

----------------------------------------------------------------------------
(* Initial states *)

\* no call is running, no device has been seen, nothing was logged
Quiet ==
    /\ audit = NoRow
    /\ pc = "idle"
    /\ stack = <<>>
    /\ outcome = "none"
    /\ ver = NoVer
    /\ resume = FALSE
    /\ skip_home_csc = FALSE
    /\ cleanup_after = FALSE
    /\ start = 0
    /\ written = 0
    /\ decPos = 0
    /\ idx = 0
    /\ records = <<>>
    /\ stats = ZeroStats
    /\ stop_task = FALSE
    /\ monitoring = FALSE
    /\ device_connected = FALSE
    /\ download_in_progress = FALSE
    /\ plugged = FALSE
    /\ devFw = NoVer
    /\ devCsc = ""
    /\ latest = NoVer
    /\ ui = "none"
    /\ imei_log = {}
    /\ clock = 0
    /\ write = NoWrite
    /\ called_on = NoTables
    /\ txn = "none"
    /\ journal = NoTables
    /\ loop = [t \in Threads |-> NotStarted]
    /\ client = NoClient
    /\ reply = NoReply
    /\ odin = NoOdinCall
    /\ channel = NoSerialCall
    /\ norm = NoNormalize
    /\ logic = NoLogicCheck
    /\ stream = NoStream
    /\ acq = NoAcq

\* a store in which firmware V1 is in the given state and no other is known
Store(row, p, e, d, x) ==
    [fw |-> [c \in Codes |-> IF c = V1 THEN row ELSE NoRow],
     part |-> [c \in Codes |-> IF c = V1 THEN p ELSE Absent],
     enc |-> [c \in Codes |-> IF c = V1 THEN e ELSE Absent],
     dec |-> [c \in Codes |-> IF c = V1 THEN d ELSE "absent"],
     dir |-> [c \in Codes |-> IF c = V1 THEN x ELSE {}]]

HasStore(s) ==
    /\ fw = s.fw
    /\ part = s.part
    /\ enc = s.enc
    /\ dec = s.dec
    /\ dir = s.dir

\* a new data directory: schema created, no rows, no files
EmptyStore == Store(NoRow, Absent, Absent, "absent", {})

Init ==
    /\ size_bytes \in RemoteSizes
    /\ csc_filter = NormalizeFilter(<<>>)
    /\ HasStore(EmptyStore)
    /\ Quiet

\* What earlier runs of the application leave behind when the monitor starts:
\* nothing; a download cut short; a downloaded firmware; a decrypted and
\* unpacked one; one that extract_firmware(cleanup_after=True) has purged.
\* (The last two need a firmware that could be decrypted.)
MonitorStores ==
    { EmptyStore,
      Store(NoRow, File(SubSeq(Remote, 1, MaxChunk)), Absent, "absent", {}),
      Store(FirmwareRecord(1, 0, 0), Absent, File(Remote), "absent", {}) }
    \cup
    IF size_bytes % AES_BLOCK = 0
    THEN { Store(FirmwareRecord(1, 1, 0), Absent, File(Remote), "complete", {"AP", "HOME_CSC"}),
           Store(FirmwareRecord(1, 1, 1), Absent, Absent, "absent", {"AP", "HOME_CSC"}) }
    ELSE {}

InitMonitor ==
    /\ size_bytes \in RemoteSizes
    /\ \E cfg \in CscFilterConfigs : csc_filter = NormalizeFilter(cfg)
    /\ Quiet
    /\ \E s \in MonitorStores : HasStore(s)

----------------------------------------------------------------------------
(* Specifications *)

\* the service called directly, one call at a time
Next ==
    \/ CallGetOrDownload
    \/ GodFind
    \/ GodBootstrap
    \/ GodInform
    \/ GodInit
    \/ GodStream
    \/ GodChunk
    \/ GodVerify
    \/ GodPersist
    \/ CallDownloadAndDecrypt
    \/ DadStart
    \/ DadStopCheck
    \/ DadAuditOk
    \/ CapLog
    \/ CapFota
    \/ CallDecrypt
    \/ DecFind
    \/ DecOpen
    \/ DecBlock
    \/ DecFlag
    \/ CallExtract
    \/ ExtOpen
    \/ ExtMember
    \/ ExtChecksum
    \/ ExtFlag
    \/ ExtCleanup
    \/ CallCleanupRepository
    \/ CleanupStep
    \/ UserStop
    \/ Kill

Spec == Init /\ [][Next]_vars

\* the repository functions and the single steps of the pipeline
NextRepo ==
    \/ CallUpsertFirmware
    \/ CallUpdateFirmwareStatus
    \/ CallGetOrDownload
    \/ GodFind
    \/ GodBootstrap
    \/ GodInform
    \/ GodInit
    \/ GodStream
    \/ GodChunk
    \/ GodVerify
    \/ GodPersist
    \/ CallDecrypt
    \/ DecFind
    \/ DecOpen
    \/ DecBlock
    \/ DecFlag
    \/ CallExtract
    \/ ExtOpen
    \/ ExtMember
    \/ ExtChecksum
    \/ ExtFlag
    \/ ExtCleanup
    \/ CallCleanupRepository
    \/ CleanupStep

SpecRepo == Init /\ [][NextRepo]_vars

\* the device monitor running over a store that earlier runs have filled
NextMonitor ==
    \/ StartMonitor
    \/ StopMonitor
    \/ Plug
    \/ Unplug
    \/ MonPoll
    \/ CapLog
    \/ CapFota
    \/ ChkBranch
    \/ DadStart
    \/ DadStopCheck
    \/ DadAuditOk
    \/ GodFind
    \/ GodBootstrap
    \/ GodInform
    \/ GodInit
    \/ GodStream
    \/ GodChunk
    \/ GodVerify
    \/ GodPersist
    \/ DecFind
    \/ DecOpen
    \/ DecBlock
    \/ DecFlag
    \/ MxOpen
    \/ MxMember
    \/ UserStop

SpecMonitor == InitMonitor /\ [][NextMonitor]_vars

\* What the pipeline can leave of one firmware: nothing; a downloaded file;
\* and, for a firmware that could be decrypted, a decrypt cut short, a
\* decrypted file, a firmware purged by extract_firmware(cleanup_after=True),
\* and one whose purge was cut short between the two unlinks.
FirmwareStates ==
    { [row |-> NoRow, enc |-> Absent, dec |-> "absent", dir |-> {}],
      [row |-> FirmwareRecord(1, 0, 0), enc |-> File(Remote), dec |-> "absent", dir |-> {}] }
    \cup
    IF size_bytes % AES_BLOCK = 0
    THEN { [row |-> FirmwareRecord(1, 0, 0), enc |-> File(Remote), dec |-> "partial", dir |-> {}],
           [row |-> FirmwareRecord(1, 1, 0), enc |-> File(Remote), dec |-> "complete", dir |-> {}],
           [row |-> FirmwareRecord(1, 1, 1), enc |-> Absent, dec |-> "absent",
            dir |-> {"AP", "HOME_CSC"}],
           [row |-> FirmwareRecord(1, 1, 1), enc |-> Absent, dec |-> "complete",
            dir |-> {"AP", "HOME_CSC"}] }
    ELSE {}

\* the repository at application start, when _perform_cleanup runs: every
\* firmware in one of the states above
InitCleanup ==
    /\ size_bytes \in RemoteSizes
    /\ csc_filter = NormalizeFilter(<<>>)
    /\ Quiet
    /\ \E st \in [Codes -> FirmwareStates] :
          /\ fw = [c \in Codes |-> st[c].row]
          /\ enc = [c \in Codes |-> st[c].enc]
          /\ dec = [c \in Codes |-> st[c].dec]
          /\ dir = [c \in Codes |-> st[c].dir]
          /\ part = [c \in Codes |-> Absent]

\* cleanup_repository run again and again over such a repository
NextCleanup ==
    \/ CallCleanupRepository
    \/ CleanupStep

SpecCleanup == InitCleanup /\ [][NextCleanup]_vars

\* the audit log written by any sequence of calls while time passes
NextAudit ==
    \/ CallUpsertImeiEvent
    \/ Tick

SpecAudit == Init /\ [][NextAudit]_vars

\* the repository writes, one call at a time
NextDb ==
    \/ CallWrite
    \/ DbBegin
    \/ DbExecute
    \/ DbCommit
    \/ DbRollback

SpecDb == Init /\ [][NextDb]_vars
----------------------------------------------------------------------------
(* Properties *)

\* C1: after any sequence of upsert_firmware, update_firmware_status,
\* get_or_download_firmware, decrypt_firmware, extract_firmware and
\* cleanup_repository, every firmware row has extracted=1 only if decrypted=1
\* and decrypted=1 only if downloaded=1.
C1_FlagImplication ==
    \A c \in Codes :
       fw[c] # NoRow =>
          /\ fw[c].extracted = 1 => fw[c].decrypted = 1
          /\ fw[c].decrypted = 1 => fw[c].downloaded = 1

\* C2: a download that was interrupted after any number of chunks and is
\* started again with resume=true goes on from offset size(part_path), appends
\* to the part file, and ends with an encrypted file equal, byte for byte, to
\* the remote file (what an uninterrupted run produces).
C2_ResumeByteEqual ==
    /\ \A c \in Codes : enc[c].ex => enc[c].data = Remote
    /\ pc = "god_chunk" =>
          /\ ~resume => start = 0
          /\ start <= written
          /\ part[Code].ex
          /\ part[Code].data = SubSeq(Remote, 1, written)

\* a resumed download (start > 0: the part file of an interrupted run was
\* taken up) has been finalized with the bytes of the remote file
C2_Witness ==
    /\ pc = "god_persist"
    /\ resume
    /\ start > 0
    /\ start < size_bytes
    /\ enc[Code] = File(Remote)

\* C3: a download is finalized only when the byte count matches: at the end
\* of the body, written # expected size makes the download fail with the size
\* mismatch error, without renaming the part file and without touching the
\* firmware table; so every row whose encrypted file is on disk stores that
\* file's size.
C3_SizeChecked ==
    [][ /\ (pc = "god_chunk" /\ pc' = "god_persist") =>
              /\ written = size_bytes
              /\ enc'[Code].ex
              /\ Len(enc'[Code].data) = size_bytes
        /\ (pc = "god_chunk" /\ pc' = "idle" /\ written # size_bytes
              /\ outcome' \notin {Cancelled, "killed"}) =>
              /\ outcome' = "DownloadError:size"
              /\ part' = part
              /\ enc' = enc
              /\ fw' = fw
        /\ \A c \in Codes :
              (fw'[c] # NoRow /\ enc'[c].ex) => Len(enc'[c].data) = fw'[c].size_bytes
      ]_vars

\* a body that ended one byte short was refused: the part file holds all but
\* the last byte, no encrypted file and no row exist
C3_Witness ==
    /\ pc = "idle"
    /\ outcome = "DownloadError:size"
    /\ part[V1].ex
    /\ Len(part[V1].data) = size_bytes - 1
    /\ ~enc[V1].ex
    /\ fw[V1] = NoRow

\* C9: when stop_check() is true while the download loop runs, the pending
\* chunk is not written and the download fails as cancelled, leaving the part
\* file with exactly the bytes written so far, creating no encrypted file and
\* changing no firmware row.
C9_CancelKeepsPart ==
    [][ (pc = "god_chunk" /\ stop_task) =>
           /\ Len(part'[Code].data) <= Len(part[Code].data)
           /\ outcome' = Cancelled =>
                 /\ pc' = "idle"
                 /\ part' = part
                 /\ part[Code] = File(SubSeq(Remote, 1, written))
                 /\ enc' = enc
                 /\ fw' = fw
      ]_vars

\* a first download was cancelled part of the way: the part file is there,
\* shorter than the remote file, and nothing else is
C9_Witness ==
    /\ pc = "idle"
    /\ outcome = Cancelled
    /\ stop_task
    /\ part[V1].ex
    /\ Len(part[V1].data) \in 1..(size_bytes - 1)
    /\ ~enc[V1].ex
    /\ fw[V1] = NoRow
    /\ dec[V1] = "absent"
\* the positions of the worker inside one step of the pipeline
InFusCalls == pc \in {"god_bootstrap", "god_inform", "god_init", "god_stream", "god_chunk"}
InDecrypt == pc \in {"dec_find", "dec_open", "dec_loop", "dec_flag"}
InExtract == pc \in {"ext_open", "ext_loop", "ext_sum", "ext_flag", "ext_cleanup"}
InCleanup == pc = "cl_loop"

\* C4: when the row of the normalized FOTA version has downloaded=1 and the
\* version differs from the device's, the monitor treats the firmware as
\* cached and issues no FUS request (bootstrap, inform, init, stream), whether
\* or not the encrypted file is still on disk.
C4_CachedSkipsDownload ==
    (Len(stack) >= 3 /\ stack[3] = "hcached") => ~InFusCalls

\* C5: within a pipeline run each flag of a firmware row only changes from 0
\* to 1, and outside cleanup_repository no row is removed.
C5_FlagsMonotonic ==
    [][ ~InCleanup =>
           \A c \in Codes :
              fw[c] # NoRow =>
                 /\ fw'[c] # NoRow
                 /\ \A f \in Flags : fw[c][f] <= fw'[c][f]
      ]_vars

\* C6: when the monitor's run for a firmware that was not cached ends with
\* download, decrypt and extract all done, the row of that version has
\* downloaded=1, decrypted=1 and extracted=1 and the audit row has
\* status_fus=ok.
C6_FreshRunSetsAllFlags ==
    [][ (pc = "mx_loop" /\ stack[3] = "hdownload" /\ pc' = "mon_poll" /\ outcome' = "ok") =>
           /\ fw'[ver] = FirmwareRecord(1, 1, 1)
           /\ audit' # NoRow
           /\ audit'.status_fus = "ok"
      ]_vars

\* C7: the decrypted flag is set only by the last step of decrypt_firmware,
\* when the whole input has been decrypted and written; the extracted flag
\* only by the step after the extraction and checksum loops have run to their
\* end; a step that fails or is cancelled before leaves the firmware table as
\* it was.
C7_FlagAfterStep ==
    [][ /\ (InDecrypt /\ fw' # fw) =>
              /\ pc = "dec_flag"
              /\ dec[ver] = "complete"
              /\ decPos = Len(enc[ver].data)
              /\ fw' = [fw EXCEPT ![ver].decrypted = 1]
        /\ (InExtract /\ fw' # fw) =>
              /\ pc = "ext_flag"
              /\ \A i \in 1..Len(FilteredMembers(skip_home_csc)) :
                    FilteredMembers(skip_home_csc)[i] \in dir[ExtractPath]
              /\ idx = Cardinality(dir[ExtractPath])
              /\ fw' = [fw EXCEPT ![ver].extracted = 1]
        /\ ((InDecrypt \/ InExtract) /\ pc' = "idle" /\ outcome' # "ok") => fw' = fw
      ]_vars

\* a decrypt step failed on the block size, or was cancelled or hit an I/O
\* error, after it had opened its output: the flag is still 0
C7_Witness ==
    /\ pc = "idle"
    /\ outcome \in {Cancelled, "OSError", "DecryptError:blocksize"}
    /\ dec[V1] = "partial"
    /\ fw[V1] # NoRow
    /\ fw[V1].decrypted = 0

\* C8: the steps run in the order download, decrypt, extract, cleanup: the
\* decrypt loop runs only over a finalized encrypted file, the extract and
\* checksum loops only over a completely decrypted file, and the source files
\* are deleted by extract_firmware only in its last step, after both loops
\* have run to their end.
C8_StepOrder ==
    /\ [](pc \in {"dec_open", "dec_loop", "dec_flag"} =>
             (enc[ver].ex /\ enc[ver].data = Remote))
    /\ [](pc \in {"ext_loop", "ext_sum", "ext_flag", "ext_cleanup"} =>
             dec[ExtractPath] = "complete")
    /\ [][ (InExtract /\ (enc' # enc \/ dec' # dec)) =>
              /\ pc = "ext_cleanup"
              /\ cleanup_after
              /\ idx = Cardinality(dir[ExtractPath])
              /\ \A i \in 1..Len(FilteredMembers(skip_home_csc)) :
                    FilteredMembers(skip_home_csc)[i] \in dir[ExtractPath]
       ]_vars

\* a firmware went through all four steps: its row has every flag set, its
\* members are unpacked, and the source files are gone
C8_Witness ==
    /\ pc = "idle"
    /\ outcome = "ok"
    /\ fw[V1] = FirmwareRecord(1, 1, 1)
    /\ dir[V1] = {"AP", "HOME_CSC"}
    /\ ~enc[V1].ex
    /\ dec[V1] = "absent"

\* C10: when a FUS request of download_and_decrypt's download fails (HTTP
\* error on inform or init, inform status not 200, inform field missing,
\* stream HTTP error, size mismatch), the audit row is updated to
\* status_fus=error and the caller gets a FUS error.
C10_FusFailureAudited ==
    [][ (/\ pc \in {"god_inform", "god_init", "god_stream", "god_chunk"}
         /\ stack = <<"dad", "god">>
         /\ pc' = "idle"
         /\ outcome' \notin {"killed", Cancelled}) =>
           /\ audit' # NoRow
           /\ audit'.status_fus = "error"
           /\ IsFUSError(outcome')
      ]_vars
\* C11: when inform answers Status=400 during the monitor's run, the audit
\* row gets status_fus=error, the message "Please update via OTA" is shown
\* with severity warning, no firmware row is created or changed, the run ends
\* and the monitor loop goes on polling.
C11_Status400Handled ==
    [][ (pc = "god_inform" /\ stack[1] = "loop" /\ outcome' = "InformError:400") =>
           /\ audit' # NoRow
           /\ audit'.status_fus = "error"
           /\ fw' = fw
           /\ ui' = "warning"
           /\ pc' = "mon_poll"
           /\ monitoring'
      ]_vars

\* C12: whatever error a step of the pipeline raises (FOTA probe, FUS inform,
\* init, stream, download, decrypt, extract), the monitor loop is still
\* running afterwards.
C12_LoopSurvives == pc # "dead"

\* C13 (as stated): once a device has been handled, no further firmware check
\* starts until a disconnect has been observed: a check starts only from a
\* clear connection state, and the connection state of a handled device is
\* cleared only by a poll that finds no device attached.
C13_NoRecheckUntilDisconnect ==
    [][ /\ (pc' = "cap_log" /\ pc # "cap_log") =>
              (pc = "mon_poll" /\ ~device_connected)
        /\ (pc = "mon_poll" /\ device_connected /\ ~device_connected') =>
              ~plugged
      ]_vars

\* C13 (amended): once a device has been handled, no further firmware check
\* starts while the loop's connection state stays set; the loop clears it at
\* a poll that finds no device or fails to read the attached one, reporting
\* "Waiting for device" as info, and only a later detection starts a check.
C13_NoRecheckWhileConnected ==
    [][ /\ (pc' = "cap_log" /\ pc # "cap_log") =>
              (pc = "mon_poll" /\ ~device_connected /\ device_connected')
        /\ (pc # "idle" /\ device_connected /\ ~device_connected') =>
              (pc = "mon_poll" /\ pc' = "mon_poll" /\ ui' = "info")
      ]_vars

C13_Witness ==
    /\ pc = "mon_poll"
    /\ monitoring
    /\ plugged
    /\ device_connected
    /\ outcome = "HTTPError"
    /\ audit # NoRow
    /\ fw[V1] = NoRow

\* C14: a run of the monitor's pipeline that ends because a stop was requested
\* during download, decrypt or extract is reported as a warning, changes no
\* firmware row in its last step, ends the download in progress and returns
\* to the loop, which keeps its monitoring state.
C14_CancelIsWarning ==
    [][ (pc \notin {"idle", "dead", "mon_poll"} /\ pc' = "mon_poll"
            /\ outcome' = Cancelled) =>
           /\ ui' = "warning"
           /\ fw' = fw
           /\ ~download_in_progress'
           /\ stack' = <<"loop">>
           /\ monitoring' = monitoring
           /\ device_connected'
      ]_vars

C14_Witness ==
    /\ pc = "mon_poll"
    /\ outcome = Cancelled
    /\ ui = "warning"
    /\ fw[V1] = FirmwareRecord(1, 1, 0)
    /\ dir[V1] = {"AP"}

\* C15: whenever the loop stops considering a connected device connected, the
\* stop_task flag is reset, so no firmware check of a newly detected device
\* starts with a stop request still in effect.
C15_StopResetOnDisconnect ==
    [][ /\ (pc = "mon_poll" /\ device_connected /\ ~device_connected') =>
              ~stop_task'
        /\ (pc = "mon_poll" /\ pc' = "cap_log") => ~stop_task'
      ]_vars

\* a connected device that the filter has rejected
FilteredDevice ==
    /\ device_connected
    /\ csc_filter # {}
    /\ \A entry \in csc_filter : StripUpper(devCsc) # entry

\* C16: at a detection, an empty CSC filter accepts every device and a filter
\* holding EUX accepts eux and rejects XAA; a rejected device gets "CSC
\* Filtered" and, for as long as it is connected, the loop stays at its poll:
\* no FOTA probe, no FUS request, no pipeline.
C16_CscFilter ==
    [][ /\ (pc = "mon_poll" /\ ~device_connected /\ device_connected') =>
              /\ csc_filter = {} => pc' = "cap_log"
              /\ (csc_filter = {"EUX"} /\ devCsc' = "eux") => pc' = "cap_log"
              /\ (csc_filter = {"EUX"} /\ devCsc' = "XAA") =>
                    (pc' = "mon_poll" /\ ui' = "warning")
        /\ FilteredDevice' => (pc' \in {"mon_poll", "idle"} /\ fw' = fw /\ audit' = audit)
      ]_vars

C16_Witness ==
    /\ FilteredDevice
    /\ plugged
    /\ monitoring
    /\ devCsc = "XAA"
    /\ ui = "warning"
    /\ pc = "mon_poll"

\* C17: a device rejected by the CSC filter has an audit row.
C17_FilteredDeviceAudited ==
    (FilteredDevice /\ pc = "mon_poll" /\ monitoring) => audit # NoRow

\* C18: when the normalized FOTA version equals the firmware version the
\* device reports, the check ends with the success message, goes back to the
\* poll with the device still connected instead of entering the pipeline (so
\* no FUS request is sent), changes no firmware row and no file, and leaves
\* the audit row of the device with status_fus=unknown and the FOTA version.
C18_UpToDate ==
    [][ (pc = "chk_branch" /\ pc' # "chk_branch" /\ latest = devFw) =>
           /\ pc' = "mon_poll"
           /\ stack' = <<"loop">>
           /\ outcome' = "uptodate"
           /\ ui' = "success"
           /\ data' = data
           /\ audit' = audit
           /\ audit # NoRow
           /\ audit.status_fus = "unknown"
           /\ audit.fota_version = latest
           /\ device_connected'
      ]_vars

C18_Witness ==
    /\ pc = "mon_poll"
    /\ outcome = "uptodate"
    /\ ui = "success"
    /\ device_connected
    /\ devFw = V1
    /\ fw[V1] = NoRow
    /\ audit # NoRow
    /\ audit.status_fus = "unknown"
    /\ audit.fota_version = V1

\* the step of cleanup_repository that visits record rec
VisitsRecord(rec) ==
    /\ pc = "cl_loop"
    /\ records # <<>>
    /\ rec = Head(records)
    /\ records' = Tail(records)

\* what the claim says of every part of a cleanup run but the decrypted file
\* of a row that is deleted
CleanupFrame ==
    /\ (pc = "idle" /\ pc' = "cl_loop") =>
          /\ stats' = ZeroStats
          /\ Len(records') = Cardinality({c \in Codes : fw[c] # NoRow})
          /\ \A c \in Codes : fw[c] # NoRow => \E i \in DOMAIN records' : records'[i] = c
          /\ data' = data
    /\ (pc = "cl_loop" /\ pc' = "idle") => (data' = data /\ stats' = stats)
    /\ \A rec \in Codes :
          VisitsRecord(rec) =>
             LET missing == ~enc[rec].ex
                 one(b) == IF b THEN 1 ELSE 0
             IN  /\ enc' = enc /\ part' = part /\ dir' = dir
                 /\ \A c \in Codes \ {rec} : fw'[c] = fw[c] /\ dec'[c] = dec[c]
                 /\ missing => fw'[rec] = NoRow
                 /\ ~missing => (fw'[rec] = fw[rec] /\ dec'[rec] = dec[rec])
                 /\ stats'.total_records = stats.total_records + 1
                 /\ stats'.missing_encrypted = stats.missing_encrypted + one(missing)
                 /\ stats'.records_deleted = stats.records_deleted + one(missing)
                 /\ stats'.decrypted_deleted =
                       stats.decrypted_deleted + one(dec'[rec] # dec[rec])

\* C19 (as stated): cleanup_repository visits every row once; it deletes the
\* row exactly when its encrypted file is missing, and then the decrypted
\* sibling is gone; every other row and file is untouched; total_records
\* counts the rows visited, missing_encrypted and records_deleted the rows
\* deleted, decrypted_deleted the siblings removed.
C19_CleanupExact ==
    [][ /\ CleanupFrame
        /\ \A rec \in Codes :
              (VisitsRecord(rec) /\ ~enc[rec].ex) => dec'[rec] = "absent"
      ]_vars

\* C19 (amended): the same, except that the decrypted sibling of a deleted
\* row is either removed and counted or, when unlinking it fails, left as it
\* was and not counted.
C19_CleanupExactOrKept ==
    [][ /\ CleanupFrame
        /\ \A rec \in Codes :
              (VisitsRecord(rec) /\ ~enc[rec].ex) => dec'[rec] \in {"absent", dec[rec]}
      ]_vars

C19_Witness ==
    /\ pc = "idle"
    /\ outcome = "ok"
    /\ stats = [total_records |-> 2, missing_encrypted |-> 1,
                decrypted_deleted |-> 1, records_deleted |-> 1]
    /\ fw[V1] = FirmwareRecord(1, 1, 0)
    /\ enc[V1].ex
    /\ dec[V1] = "complete"
    /\ fw[OldFw] = NoRow
    /\ dec[OldFw] = "absent"
    /\ dir[OldFw] = {"AP", "HOME_CSC"}

\* every row of the table has its encrypted file
CleanStore == \A c \in Codes : fw[c] # NoRow => enc[c].ex

\* C20: a run of cleanup_repository leaves a store in which every row has its
\* encrypted file, and a run over such a store (as a second run in a row is)
\* changes no row and no file and counts no deletion.
C20_CleanupIdempotent ==
    [][ /\ (pc = "cl_loop" /\ pc' = "idle") => CleanStore'
        /\ (pc = "cl_loop" /\ CleanStore) =>
              /\ data' = data
              /\ stats'.missing_encrypted = stats.missing_encrypted
              /\ stats'.records_deleted = stats.records_deleted
              /\ stats'.decrypted_deleted = stats.decrypted_deleted
      ]_vars

C20_Witness ==
    /\ pc = "idle"
    /\ outcome = "ok"
    /\ stats = [total_records |-> 1, missing_encrypted |-> 0,
                decrypted_deleted |-> 0, records_deleted |-> 0]
    /\ fw[V1] # NoRow
    /\ fw[OldFw] = NoRow
    /\ dir[OldFw] = {"AP", "HOME_CSC"}

\* C21: the audit log never holds two rows with the same (session_id, imei)
\* nor two rows with the same id, and a call for a key that has a row leaves
\* the number of rows and the id of that row as they were.
C21_OneRowPerKey ==
    /\ [](\A r, q \in imei_log :
             ((r.session_id = q.session_id /\ r.imei = q.imei) \/ r.id = q.id) => r = q)
    /\ [][ \A r \in imei_log :
              /\ Cardinality(imei_log') >= Cardinality(imei_log)
              /\ \E q \in imei_log' :
                    q.id = r.id /\ q.session_id = r.session_id /\ q.imei = r.imei
              /\ (\E q \in imei_log' : q.session_id = r.session_id /\ q.imei = r.imei
                                       /\ q.updated_at # r.updated_at) =>
                    Cardinality(imei_log') = Cardinality(imei_log)
         ]_vars

C21_Witness ==
    /\ Cardinality(imei_log) = 2
    /\ \E r \in imei_log :
          /\ r.session_id = "s1" /\ r.imei = "i1" /\ r.id = 1
          /\ r.created_at = 0 /\ r.updated_at = 2 /\ r.status_fus = "error"
    /\ \E r \in imei_log : r.session_id = "s1" /\ r.imei = "i2" /\ r.id = 2

\* C22: every audit row has updated_at >= created_at, and from one state to
\* the next the row of a key keeps its created_at and its updated_at does not
\* decrease.
C22_Timestamps ==
    /\ [](\A r \in imei_log : r.updated_at >= r.created_at)
    /\ [][ \A r \in imei_log : \A q \in imei_log' :
              (q.session_id = r.session_id /\ q.imei = r.imei) =>
                 (q.created_at = r.created_at /\ q.updated_at >= r.updated_at)
         ]_vars

C22_Witness ==
    \E r \in imei_log :
       /\ r.created_at = 1
       /\ r.updated_at = 2
       /\ r.status_fus = "unknown"
       /\ r.id = 2

\* a write has just ended with an error
WriteFailed == pc = "idle" /\ outcome \in {"IntegrityError", "OperationalError"}

\* what holds of every write: one that fails leaves both tables as they were
\* when it was called, one whose arguments break a CHECK constraint fails, and
\* no transaction is left open
FailedWriteChangesNothing ==
    /\ WriteFailed => (<<fw, imei_log>> = called_on /\ txn = "none")
    /\ (pc = "idle" /\ outcome = "ok") => txn = "none"
    /\ \A c \in Codes : fw[c] # NoRow => fw[c].downloaded \in {0, 1} /\ fw[c].decrypted \in {0, 1}
    /\ \A r \in imei_log : r.status_upgrade \in UpgradeStatuses

\* C23 (as stated): every write executes its statement inside a transaction
\* it has begun, and a write that fails leaves the store as it was before the
\* call.
C23_WritesInTransaction ==
    /\ pc = "db_execute" => txn = "open"
    /\ FailedWriteChangesNothing

\* C23 (amended): upsert_firmware, update_firmware_status and delete_firmware
\* execute their statement inside a transaction they have begun; a write of
\* any of the five functions that fails leaves the store as it was before the
\* call.
C23_FailedWriteChangesNothing ==
    /\ (pc = "db_execute" /\ write.fn \in FirmwareWrites) => txn = "open"
    /\ (pc = "db_execute" /\ write.fn \notin FirmwareWrites) => txn = "none"
    /\ FailedWriteChangesNothing

C23_Witness ==
    /\ WriteFailed
    /\ outcome = "OperationalError"
    /\ called_on[1][V1] = FirmwareRecord(1, 0, 0)
    /\ fw[V1] = FirmwareRecord(1, 0, 0)
    /\ Cardinality(imei_log) = 2

\* start and stop requests interleaved with the monitor threads
NextThreads ==
    \/ start_monitoring
    \/ stop_monitoring
    \/ \E t \in Threads : LoopWhile(t)
    \/ \E t \in Threads : LoopRead(t)
    \/ \E t \in Threads : LoopPipeline(t)
    \/ \E t \in Threads : LoopSleep(t)

SpecThreads == Init /\ [][NextThreads]_vars

\* C24: at most one monitor loop is active at any time, whatever the order of
\* start and stop requests: no two loops poll the device or run a pipeline in
\* parallel
C24_OneWorkerLoop ==
    /\ \A t, u \in Threads : Active(t) /\ Active(u) => t = u
    /\ \A t, u \in Threads : Busy(t) /\ Busy(u) => t = u


NextFus ==
    \/ FUSClientInit
    \/ FUSRequest("inform")
    \/ FUSRequest("init")
    \/ FUSClientDropped

SpecFus == Init /\ [][NextFus]_vars

\* the three nonce fields belong together
NonceConsistent(c) ==
    \/ c.enc_nonce = "" /\ c.nonce = "" /\ c.auth = ""
    \/ c.nonce = decrypt_nonce(c.enc_nonce) /\ c.auth = make_signature(c.nonce)

\* C25: every response with a NONCE header rotates the session (encrypted
\* nonce = header, plain nonce = decrypt_nonce of it, signature =
\* make_signature of the plain nonce), one without leaves the three fields as
\* they were, a JSESSIONID cookie rotates the session cookie independently,
\* and so the three nonce fields of a client are consistent in every state
C25_NonceRotation ==
    client.made =>
        /\ reply.r.nonce # NoHeader =>
            /\ client.enc_nonce = reply.r.nonce
            /\ client.nonce = decrypt_nonce(reply.r.nonce)
            /\ client.auth = make_signature(client.nonce)
        /\ reply.r.nonce = NoHeader =>
            /\ client.enc_nonce = reply.before.enc_nonce
            /\ client.nonce = reply.before.nonce
            /\ client.auth = reply.before.auth
        /\ reply.r.cookie # NoHeader => client.sessid = reply.r.cookie
        /\ reply.r.cookie = NoHeader => client.sessid = reply.before.sessid
        /\ NonceConsistent(client)


NextOdin ==
    \/ CallEnterOdinMode
    \/ OdinWhile
    \/ OdinSleep
    \/ OdinProbe
    \/ OdinSleepAfter

SpecOdin == Init /\ [][NextOdin]_vars /\ WF_vars(NextOdin)

SawLoke(i) == odin.probes[i].saw = "LOKE"

\* the call returned True at the first probe that saw LOKE
ReturnedAtFirstLoke ==
    /\ Len(odin.probes) > 0
    /\ SawLoke(Len(odin.probes))
    /\ \A i \in 1..(Len(odin.probes) - 1) : ~SawLoke(i)

NextSerial ==
    \/ CallSerial
    \/ SerialOpen
    \/ SerialConfigure
    \/ SerialExchange

SpecSerial == Init /\ [][NextSerial]_vars

\* C27: whenever a function of the device channel has returned or raised,
\* no handle it opened is still open, and a handle supplied by the caller to
\* read_device_info has not been closed
C27_HandlesReleased ==
    channel.at = "idle" =>
        /\ channel.opened = 0
        /\ channel.port_instance => channel.given = "open"


NextNormalize ==
    \/ CallNormalize
    \/ CallNormalizeAgain

SpecNormalize == Init /\ [][NextNormalize]_vars

\* C28: normalize_vercode is idempotent: normalizing what it returned gives
\* the same text again, for every input
C28_Idempotent ==
    norm.twice # NotCalled =>
        /\ norm.twice = norm.once
        /\ norm.once.ended = "returned" => norm.twice.ended = "returned"

\* a three-part text with an empty third part has been normalized twice
C28_Witness ==
    /\ norm.vercode = <<"A", "/", "B", "/">>
    /\ norm.once = [ended |-> "returned",
                    value |-> <<"A", "/", "B", "/", "A", "/", "A">>]
    /\ norm.twice.ended = "returned"

\* C29: every value normalize_vercode returns has exactly four parts (three
\* "/") and a non-empty third part; a three-part input gets its first part
\* appended as fourth, an empty third part is replaced by the first
C29_FourParts ==
    norm.once.ended = "returned" =>
        LET given == SplitSlash(norm.vercode)
            parts == SplitSlash(norm.once.value)
        IN  /\ Len(parts) = 4
            /\ parts[3] # <<>>
            /\ Len(given) = 3 => parts[4] = given[1]
            /\ given[3] = <<>> => parts[3] = given[1]


NextLogic == CallLogicCheck

SpecLogic == Init /\ [][NextLogic]_vars

\* C30: logic_check fails for every input shorter than 16 characters and,
\* for every input of 16 or more characters and every nonce, returns the
\* text whose i-th character is the input's character at the position given
\* by the low four bits of the nonce's i-th character
C30_LogicCheck ==
    logic.result # NotCalled =>
        /\ Len(logic.inp) <= 15 => logic.result.ended = "ValueError"
        /\ Len(logic.inp) >= 16 =>
            /\ logic.result.ended = "returned"
            /\ Len(logic.result.value) = Len(logic.nonce)
            /\ \A i \in 1..Len(logic.nonce) :
                \E k \in 0..15 :
                    /\ (logic.nonce[i] - k) % 16 = 0
                    /\ logic.result.value[i] = logic.inp[k + 1]

\* an input of exactly 16 characters and a nonce whose characters select the
\* last and the first of them
C30_Witness ==
    /\ logic.inp = SubSeq(Letters, 1, 16)
    /\ logic.nonce = <<111, 48>>
    /\ logic.result = [ended |-> "returned", value |-> <<"p", "a">>]


NextStream ==
    \/ CallDecryptProgress
    \/ DecryptRead

SpecStream == Init /\ [][NextStream]_vars

\* C31: streaming decryption rejects an input whose length is not a multiple
\* of 16 and otherwise writes, whatever the buffer size, what decrypting the
\* whole input and unpadding only its final block gives: buffers before the
\* end are written as decrypted, the unpadding is applied at the end only
C31_StreamEqualsWhole ==
    /\ stream.ended = "DecryptError" <=>
          (stream.ended # "not called" /\ Len(stream.fin) % 16 # 0)
    /\ stream.ended = "running" /\ stream.pos < Len(stream.fin) =>
          stream.fout = SubSeq(cipher_decrypt(stream.fin), 1, stream.pos)
    /\ stream.ended = "returned" => stream.fout = DecryptWhole(stream.fin)


\* C32: get_latest_version ends with ModelOrRegionNotFound on HTTP 403 and
\* with NoFirmware on a document without a latest version, never with
\* another error for such a document; the monitor shows both as a warning
\* and its loop goes on
C32_FotaErrorsAreWarnings ==
    /\ outcome # "AttributeError"
    /\ stack = <<"loop">> /\ outcome \in FOTAErrors => ui = "warning"
    /\ pc = "dead" => outcome \notin FOTAErrors \cup {"AttributeError"}


\* C33: when find_firmware gives a row for the version and the encrypted
\* file of that row is on disk, get_or_download_firmware returns at once: no
\* FUS client is made, no request is sent, and the table and the files stay
\* as they are
C33_SmartDownload ==
    [][ (/\ pc = "god_find"
         /\ pc' # "god_find"
         /\ outcome' # "killed"
         /\ find_firmware(ver) # NoRow
         /\ enc[ver].ex)
        => /\ data' = data
           /\ ~InFusCalls'
           /\ stack = <<"god">> => pc' = "idle" /\ outcome' = "ok"
           /\ stack # <<"god">> => pc' = "dad_audit_ok"
      ]_vars

\* download_and_decrypt got the record back from get_or_download_firmware
\* without a byte having been transferred
C33_Witness ==
    /\ pc = "dad_audit_ok"
    /\ written = 0
    /\ find_firmware(ver) # NoRow
    /\ enc[ver].ex

\* a byte sequence that is the first bytes of the remote file
IsPrefixOfRemote(bytes) == bytes = SubSeq(Remote, 1, Len(bytes))

\* C34: in every state of the download engine (after a cancellation, after a
\* crash, after a restart with or without resume) the part file holds a prefix
\* of the remote file; a step of the chunk loop appends the received chunk in
\* full at offset size(part_path) or leaves the file alone; and a run that
\* starts at offset 0 truncates the part file before writing.
C34_PartIsPrefix ==
    /\ [](\A c \in Codes : part[c].ex => IsPrefixOfRemote(part[c].data))
    /\ [][pc = "god_chunk" /\ pc' = "god_chunk" /\ outcome' # "killed" =>
            \/ part' = part
            \/ \E n \in 1..MaxChunk :
                  /\ Len(part[Code].data) + n <= size_bytes
                  /\ part' = [part EXCEPT ![Code] =
                                 File(@.data \o SubSeq(Remote, Len(@.data) + 1, Len(@.data) + n))]]_vars
    /\ [][pc = "god_stream" /\ pc' = "god_chunk" /\ start' = 0 =>
            part'[Code] = File(<<>>)]_vars

\* a crash in the chunk loop has left a part file that holds some, not all, of
\* the remote file's bytes
C34_Witness ==
    /\ pc = "idle"
    /\ outcome = "killed"
    /\ \E c \in Codes :
          /\ part[c].ex
          /\ Len(part[c].data) > MaxChunk
          /\ Len(part[c].data) < size_bytes
          /\ IsPrefixOfRemote(part[c].data)

\* part_path holds all the bytes of the remote file and enc_path does not exist
FullPartNotRenamed(c) == part[c] = File(Remote) /\ ~enc[c].ex

\* C35: when the process was interrupted after the last chunk and before the
\* rename (the part file holds expected_size bytes), a run with resume=true
\* whose range request the server answers according to its offset goes on to
\* finalize the download: the request is accepted, and the end of the body
\* renames the part file to enc_path, whose row is then stored with
\* downloaded = 1.
C35_FullPartIsFinalized ==
    /\ [][pc = "god_stream" /\ resume /\ FullPartNotRenamed(Code)
            /\ pc' # "god_stream" /\ outcome' \notin {"killed", "DownloadError:http"}
          => pc' = "god_chunk" /\ start' = size_bytes]_vars
    /\ [][pc = "god_chunk" /\ resume /\ start = size_bytes
            /\ pc' # "god_chunk" /\ outcome' # "killed"
          => pc' = "god_persist" /\ enc'[Code] = File(Remote)]_vars
    /\ [][pc = "god_persist" /\ pc' # "god_persist" /\ outcome' # "killed"
          => fw'[Code] # NoRow /\ fw'[Code].downloaded = 1]_vars

\* C36: when cleanup_repository returns, every row that is left has its
\* encrypted file on disk: each record of the list whose encrypted file is
\* missing loses its row in its iteration, so the row of a firmware whose
\* encrypted file extract_firmware(cleanup_after=True) removed is gone after
\* the next reconciliation.
C36_CleanupLeavesOnlyRowsWithFile ==
    /\ [][pc = "cl_loop" /\ pc' = "idle" /\ outcome' = "ok" => CleanStore']_vars
    /\ [][pc = "cl_loop" /\ pc' = "cl_loop" /\ records' # records
            /\ ~enc[Head(records)].ex
          => fw'[Head(records)] = NoRow]_vars

\* a firmware was downloaded, decrypted and extracted with cleanup_after (its
\* directory is there, its two files are not), and the reconciliation that
\* ran afterwards has deleted its row
C36_Witness ==
    /\ pc = "idle"
    /\ outcome = "ok"
    /\ stats.records_deleted = 1
    /\ \E c \in Codes :
          /\ fw[c] = NoRow
          /\ ~enc[c].ex
          /\ dec[c] = "absent"
          /\ dir[c] # {}
    /\ CleanStore

\* C37: on conflict upsert_imei_event replaces every mutable column by the
\* values of the latest call, and a field the call omits becomes NULL: the
\* detection entry of check_and_prepare_firmware has no fota_version, and the
\* status update of download_and_decrypt (status_fus ok or error) passes no
\* serial_number, lock_status, aid or cc, so the values the monitor recorded
\* at detection are erased by it.
C37_StatusUpdateErasesDeviceFields ==
    /\ [][pc = "cap_log" /\ pc' = "cap_fota" =>
            audit' = [status_fus |-> "unknown", fota_version |-> NoVer,
                      serial_number |-> SerialKnown]]_vars
    /\ [][pc = "dad_audit_ok" /\ pc' = "dec_find" =>
            audit' = [status_fus |-> "ok", fota_version |-> ver,
                      serial_number |-> FALSE]]_vars
    /\ [][audit' # audit /\ audit' # NoRow /\ audit'.status_fus = "error" =>
            audit' = [status_fus |-> "error", fota_version |-> normalize_vercode(ver),
                      serial_number |-> FALSE]]_vars

\* the monitor recorded the device's serial number, lock status, aid and cc
\* at detection; the download of the handler has failed with a FUS error and
\* the row of the device now has status_fus = error and none of the four
C37_Witness ==
    /\ monitoring
    /\ outcome \in FUSErrors
    /\ audit # NoRow
    /\ audit.status_fus = "error"
    /\ audit.fota_version # NoVer
    /\ ~audit.serial_number


\* one run of the acquisition sequence
NextAcq ==
    \/ AcqBootstrap
    \/ AcqInform
    \/ AcqInit
    \/ AcqStream

SpecAcq == Init /\ [][NextAcq]_vars

\* the client's fields after the first k responses of the run
RECURSIVE SessionAfter(_, _)
SessionAfter(responses, k) ==
    IF k = 0 THEN NoClient
    ELSE makereq(SessionAfter(responses, k - 1), responses[k]).client

\* the requests come in the order bootstrap, inform, init, stream, and each
\* carries the fields the response before it has left
RequestsFollowResponses ==
    \A i \in DOMAIN acq.sent :
        LET q == acq.sent[i]
            c == SessionAfter(acq.got, i - 1)
        IN  /\ q.op = <<"bootstrap", "inform", "init", "stream">>[i]
            /\ q.op \in {"inform", "init"} => q.logic_nonce = c.nonce
            /\ q.op = "stream" => q.auth_nonce = c.enc_nonce /\ q.signature = c.auth

\* a request after the bootstrap is sent only with a nonce from the bootstrap
\* response
NonceBeforeRequests ==
    Len(acq.sent) > 1 => SessionAfter(acq.got, 1).nonce # ""

\* C38: in the sequence bootstrap, inform, init, stream, each request is built
\* from the session state the most recent response has left (the LOGIC_CHECK
\* of inform from the bootstrap nonce, that of init from the nonce in effect
\* after the inform response, the Authorization of stream from the encrypted
\* nonce and the signature in effect after the init response), and no request
\* is sent before the bootstrap has supplied a nonce.
C38_RequestsUseLatestSession ==
    /\ RequestsFollowResponses
    /\ NonceBeforeRequests
====
